---- MODULE Spec2Model ----
(***************************************************************************)
(* A model of the command-line RAG assistants of this repository:          *)
(*   dual     src/dual_model_assistant.py  DualModelRAGAssistant           *)
(*   advanced src/advanced_example.py      AdvancedRAGAssistant            *)
(*   basic    src/assistant.py             main                            *)
(*   simple   src/simple_dual_model.py     main                            *)
(* Text is the sequence of its characters' code points, so that strip,     *)
(* upper, lower, slicing and concatenation are computed character by       *)
(* character, with the case and whitespace tables of Python 3.11.          *)
(* The web search and the hosted models are the environment: each call     *)
(* either returns a text or raises an Exception with a cause text.         *)
(***************************************************************************)
EXTENDS Integers, Sequences, FiniteSets, TLC

VARIABLES
    variant,               \* which script runs (fixed at start)
    running,               \* the while True loop has not been left
    pc,                    \* position of the loop: "input", or the pending step
    now,                   \* wall clock, an index into Times
    conversation_history,  \* self.conversation_history
    user_question,         \* run(): user_question (after strip)
    context,               \* process_question: context
    strategy,              \* process_question: strategy
    qwen_response,         \* process_question: qwen_response
    gpt_response,          \* process_question: gpt_response
    response,              \* process_question / run: response
    calls,                 \* external calls made for the current line, in order, with outcomes
    printed,               \* what the latest loop step printed
    recorded               \* every entry appended since the last clear (history without the cap)

vars == <<variant, running, pc, now, conversation_history, user_question, context,
          strategy, qwen_response, gpt_response, response, calls, printed, recorded>>

(*************************** characters and text ***************************)

\* A text (a Python str) is the sequence of the code points of its characters, as
\* ord() gives them: "Hi" is <<72, 105>>. len(), indexing and slicing count code
\* points, as the sequence does.

\* the characters chr(32) .. chr(95), in order
PrintableLow ==
    <<" ", "!", "\"", "#", "$", "%", "&", "'", "(", ")", "*", "+", ",", "-", ".", "/", "0",
      "1", "2", "3", "4", "5", "6", "7", "8", "9", ":", ";", "<", "=", ">", "?", "@", "A",
      "B", "C", "D", "E", "F", "G", "H", "I", "J", "K", "L", "M", "N", "O", "P", "Q", "R",
      "S", "T", "U", "V", "W", "X", "Y", "Z", "[", "\\", "]", "^", "_">>

\* the characters chr(97) .. chr(126), in order
PrintableHigh ==
    <<"a", "b", "c", "d", "e", "f", "g", "h", "i", "j", "k", "l", "m", "n", "o", "p", "q",
      "r", "s", "t", "u", "v", "w", "x", "y", "z", "{", "|", "}", "~">>

\* ord(c) of a character written literally in this module
Ord ==
    [c \in {PrintableLow[i] : i \in 1..Len(PrintableLow)}
           \cup {PrintableHigh[i] : i \in 1..Len(PrintableHigh)}
           \cup {"\t", "\n", "\f", "\r"} |->
        CASE c = "\t" -> 9
          [] c = "\n" -> 10
          [] c = "\f" -> 12
          [] c = "\r" -> 13
          [] \E i \in 1..Len(PrintableLow) : PrintableLow[i] = c ->
                31 + (CHOOSE i \in 1..Len(PrintableLow) : PrintableLow[i] = c)
          [] OTHER -> 96 + (CHOOSE i \in 1..Len(PrintableHigh) : PrintableHigh[i] = c)]

\* the text of a string literal, written character by character
Text(s) == [i \in 1..Len(s) |-> Ord[s[i]]]

\* the members of the ranges lo..hi of a set of pairs <<lo, hi>>
InRanges(c, rs) == \E r \in rs : r[1] <= c /\ c <= r[2]

\* the characters str.strip() removes (str.isspace): \t \n \v \f \r, U+001C..U+001F,
\* space, U+0085, U+00A0, U+1680, U+2000..U+200A, U+2028, U+2029, U+202F, U+205F,
\* U+3000
Whitespace ==
    {9, 10, 11, 12, 13, 28, 29, 30, 31, 32, 133, 160, 5760, 8192, 8193, 8194, 8195, 8196,
     8197, 8198, 8199, 8200, 8201, 8202, 8232, 8233, 8239, 8287, 12288}

\* str.upper() of one character where it is one other character: for the code
\* points lo, lo + step, .. hi the result is the code point plus delta;
\* <<lo, hi, step, delta>>
UpperRanges ==
    {<<97, 122, 1, -32>>, <<181, 181, 1, 743>>, <<224, 246, 1, -32>>, <<248, 254, 1, -32>>,
     <<255, 255, 1, 121>>, <<257, 303, 2, -1>>, <<305, 305, 1, -232>>, <<307, 311, 2, -1>>,
     <<314, 328, 2, -1>>, <<331, 375, 2, -1>>, <<378, 382, 2, -1>>, <<383, 383, 1, -300>>,
     <<384, 384, 1, 195>>, <<387, 389, 2, -1>>, <<392, 392, 1, -1>>, <<396, 396, 1, -1>>,
     <<402, 402, 1, -1>>, <<405, 405, 1, 97>>, <<409, 409, 1, -1>>, <<410, 410, 1, 163>>,
     <<414, 414, 1, 130>>, <<417, 421, 2, -1>>, <<424, 424, 1, -1>>, <<429, 429, 1, -1>>,
     <<432, 432, 1, -1>>, <<436, 438, 2, -1>>, <<441, 441, 1, -1>>, <<445, 445, 1, -1>>,
     <<447, 447, 1, 56>>, <<453, 453, 1, -1>>, <<454, 454, 1, -2>>, <<456, 456, 1, -1>>,
     <<457, 457, 1, -2>>, <<459, 459, 1, -1>>, <<460, 460, 1, -2>>, <<462, 476, 2, -1>>,
     <<477, 477, 1, -79>>, <<479, 495, 2, -1>>, <<498, 498, 1, -1>>, <<499, 499, 1, -2>>,
     <<501, 501, 1, -1>>, <<505, 543, 2, -1>>, <<547, 563, 2, -1>>, <<572, 572, 1, -1>>,
     <<575, 576, 1, 10815>>, <<578, 578, 1, -1>>, <<583, 591, 2, -1>>,
     <<592, 592, 1, 10783>>, <<593, 593, 1, 10780>>, <<594, 594, 1, 10782>>,
     <<595, 595, 1, -210>>, <<596, 596, 1, -206>>, <<598, 599, 1, -205>>,
     <<601, 601, 1, -202>>, <<603, 603, 1, -203>>, <<604, 604, 1, 42319>>,
     <<608, 608, 1, -205>>, <<609, 609, 1, 42315>>, <<611, 611, 1, -207>>,
     <<613, 613, 1, 42280>>, <<614, 614, 1, 42308>>, <<616, 616, 1, -209>>,
     <<617, 617, 1, -211>>, <<618, 618, 1, 42308>>, <<619, 619, 1, 10743>>,
     <<620, 620, 1, 42305>>, <<623, 623, 1, -211>>, <<625, 625, 1, 10749>>,
     <<626, 626, 1, -213>>, <<629, 629, 1, -214>>, <<637, 637, 1, 10727>>,
     <<640, 640, 1, -218>>, <<642, 642, 1, 42307>>, <<643, 643, 1, -218>>,
     <<647, 647, 1, 42282>>, <<648, 648, 1, -218>>, <<649, 649, 1, -69>>,
     <<650, 651, 1, -217>>, <<652, 652, 1, -71>>, <<658, 658, 1, -219>>,
     <<669, 669, 1, 42261>>, <<670, 670, 1, 42258>>, <<837, 837, 1, 84>>,
     <<881, 883, 2, -1>>, <<887, 887, 1, -1>>, <<891, 893, 1, 130>>, <<940, 940, 1, -38>>,
     <<941, 943, 1, -37>>, <<945, 961, 1, -32>>, <<962, 962, 1, -31>>,
     <<963, 971, 1, -32>>, <<972, 972, 1, -64>>, <<973, 974, 1, -63>>,
     <<976, 976, 1, -62>>, <<977, 977, 1, -57>>, <<981, 981, 1, -47>>,
     <<982, 982, 1, -54>>, <<983, 983, 1, -8>>, <<985, 1007, 2, -1>>,
     <<1008, 1008, 1, -86>>, <<1009, 1009, 1, -80>>, <<1010, 1010, 1, 7>>,
     <<1011, 1011, 1, -116>>, <<1013, 1013, 1, -96>>, <<1016, 1016, 1, -1>>,
     <<1019, 1019, 1, -1>>, <<1072, 1103, 1, -32>>, <<1104, 1119, 1, -80>>,
     <<1121, 1153, 2, -1>>, <<1163, 1215, 2, -1>>, <<1218, 1230, 2, -1>>,
     <<1231, 1231, 1, -15>>, <<1233, 1327, 2, -1>>, <<1377, 1414, 1, -48>>,
     <<4304, 4346, 1, 3008>>, <<4349, 4351, 1, 3008>>, <<5112, 5117, 1, -8>>,
     <<7296, 7296, 1, -6254>>, <<7297, 7297, 1, -6253>>, <<7298, 7298, 1, -6244>>,
     <<7299, 7300, 1, -6242>>, <<7301, 7301, 1, -6243>>, <<7302, 7302, 1, -6236>>,
     <<7303, 7303, 1, -6181>>, <<7304, 7304, 1, 35266>>, <<7545, 7545, 1, 35332>>,
     <<7549, 7549, 1, 3814>>, <<7566, 7566, 1, 35384>>, <<7681, 7829, 2, -1>>,
     <<7835, 7835, 1, -59>>, <<7841, 7935, 2, -1>>, <<7936, 7943, 1, 8>>,
     <<7952, 7957, 1, 8>>, <<7968, 7975, 1, 8>>, <<7984, 7991, 1, 8>>,
     <<8000, 8005, 1, 8>>, <<8017, 8023, 2, 8>>, <<8032, 8039, 1, 8>>,
     <<8048, 8049, 1, 74>>, <<8050, 8053, 1, 86>>, <<8054, 8055, 1, 100>>,
     <<8056, 8057, 1, 128>>, <<8058, 8059, 1, 112>>, <<8060, 8061, 1, 126>>,
     <<8112, 8113, 1, 8>>, <<8126, 8126, 1, -7205>>, <<8144, 8145, 1, 8>>,
     <<8160, 8161, 1, 8>>, <<8165, 8165, 1, 7>>, <<8526, 8526, 1, -28>>,
     <<8560, 8575, 1, -16>>, <<8580, 8580, 1, -1>>, <<9424, 9449, 1, -26>>,
     <<11312, 11359, 1, -48>>, <<11361, 11361, 1, -1>>, <<11365, 11365, 1, -10795>>,
     <<11366, 11366, 1, -10792>>, <<11368, 11372, 2, -1>>, <<11379, 11379, 1, -1>>,
     <<11382, 11382, 1, -1>>, <<11393, 11491, 2, -1>>, <<11500, 11502, 2, -1>>,
     <<11507, 11507, 1, -1>>, <<11520, 11557, 1, -7264>>, <<11559, 11559, 1, -7264>>,
     <<11565, 11565, 1, -7264>>, <<42561, 42605, 2, -1>>, <<42625, 42651, 2, -1>>,
     <<42787, 42799, 2, -1>>, <<42803, 42863, 2, -1>>, <<42874, 42876, 2, -1>>,
     <<42879, 42887, 2, -1>>, <<42892, 42892, 1, -1>>, <<42897, 42899, 2, -1>>,
     <<42900, 42900, 1, 48>>, <<42903, 42921, 2, -1>>, <<42933, 42947, 2, -1>>,
     <<42952, 42954, 2, -1>>, <<42961, 42961, 1, -1>>, <<42967, 42969, 2, -1>>,
     <<42998, 42998, 1, -1>>, <<43859, 43859, 1, -928>>, <<43888, 43967, 1, -38864>>,
     <<65345, 65370, 1, -32>>, <<66600, 66639, 1, -40>>, <<66776, 66811, 1, -40>>,
     <<66967, 66977, 1, -39>>, <<66979, 66993, 1, -39>>, <<66995, 67001, 1, -39>>,
     <<67003, 67004, 1, -39>>, <<68800, 68850, 1, -64>>, <<71872, 71903, 1, -32>>,
     <<93792, 93823, 1, -32>>, <<125218, 125251, 1, -34>>}

\* str.upper() of one character where it is several characters (U+00DF gives 'SS');
\* <<code point, result>>
UpperSpecial ==
    {<<223, <<83, 83>>>>, <<329, <<700, 78>>>>, <<496, <<74, 780>>>>,
     <<912, <<921, 776, 769>>>>, <<944, <<933, 776, 769>>>>, <<1415, <<1333, 1362>>>>,
     <<7830, <<72, 817>>>>, <<7831, <<84, 776>>>>, <<7832, <<87, 778>>>>,
     <<7833, <<89, 778>>>>, <<7834, <<65, 702>>>>, <<8016, <<933, 787>>>>,
     <<8018, <<933, 787, 768>>>>, <<8020, <<933, 787, 769>>>>, <<8022, <<933, 787, 834>>>>,
     <<8064, <<7944, 921>>>>, <<8065, <<7945, 921>>>>, <<8066, <<7946, 921>>>>,
     <<8067, <<7947, 921>>>>, <<8068, <<7948, 921>>>>, <<8069, <<7949, 921>>>>,
     <<8070, <<7950, 921>>>>, <<8071, <<7951, 921>>>>, <<8072, <<7944, 921>>>>,
     <<8073, <<7945, 921>>>>, <<8074, <<7946, 921>>>>, <<8075, <<7947, 921>>>>,
     <<8076, <<7948, 921>>>>, <<8077, <<7949, 921>>>>, <<8078, <<7950, 921>>>>,
     <<8079, <<7951, 921>>>>, <<8080, <<7976, 921>>>>, <<8081, <<7977, 921>>>>,
     <<8082, <<7978, 921>>>>, <<8083, <<7979, 921>>>>, <<8084, <<7980, 921>>>>,
     <<8085, <<7981, 921>>>>, <<8086, <<7982, 921>>>>, <<8087, <<7983, 921>>>>,
     <<8088, <<7976, 921>>>>, <<8089, <<7977, 921>>>>, <<8090, <<7978, 921>>>>,
     <<8091, <<7979, 921>>>>, <<8092, <<7980, 921>>>>, <<8093, <<7981, 921>>>>,
     <<8094, <<7982, 921>>>>, <<8095, <<7983, 921>>>>, <<8096, <<8040, 921>>>>,
     <<8097, <<8041, 921>>>>, <<8098, <<8042, 921>>>>, <<8099, <<8043, 921>>>>,
     <<8100, <<8044, 921>>>>, <<8101, <<8045, 921>>>>, <<8102, <<8046, 921>>>>,
     <<8103, <<8047, 921>>>>, <<8104, <<8040, 921>>>>, <<8105, <<8041, 921>>>>,
     <<8106, <<8042, 921>>>>, <<8107, <<8043, 921>>>>, <<8108, <<8044, 921>>>>,
     <<8109, <<8045, 921>>>>, <<8110, <<8046, 921>>>>, <<8111, <<8047, 921>>>>,
     <<8114, <<8122, 921>>>>, <<8115, <<913, 921>>>>, <<8116, <<902, 921>>>>,
     <<8118, <<913, 834>>>>, <<8119, <<913, 834, 921>>>>, <<8124, <<913, 921>>>>,
     <<8130, <<8138, 921>>>>, <<8131, <<919, 921>>>>, <<8132, <<905, 921>>>>,
     <<8134, <<919, 834>>>>, <<8135, <<919, 834, 921>>>>, <<8140, <<919, 921>>>>,
     <<8146, <<921, 776, 768>>>>, <<8147, <<921, 776, 769>>>>, <<8150, <<921, 834>>>>,
     <<8151, <<921, 776, 834>>>>, <<8162, <<933, 776, 768>>>>, <<8163, <<933, 776, 769>>>>,
     <<8164, <<929, 787>>>>, <<8166, <<933, 834>>>>, <<8167, <<933, 776, 834>>>>,
     <<8178, <<8186, 921>>>>, <<8179, <<937, 921>>>>, <<8180, <<911, 921>>>>,
     <<8182, <<937, 834>>>>, <<8183, <<937, 834, 921>>>>, <<8188, <<937, 921>>>>,
     <<64256, <<70, 70>>>>, <<64257, <<70, 73>>>>, <<64258, <<70, 76>>>>,
     <<64259, <<70, 70, 73>>>>, <<64260, <<70, 70, 76>>>>, <<64261, <<83, 84>>>>,
     <<64262, <<83, 84>>>>, <<64275, <<1348, 1350>>>>, <<64276, <<1348, 1333>>>>,
     <<64277, <<1348, 1339>>>>, <<64278, <<1358, 1350>>>>, <<64279, <<1348, 1341>>>>}

\* str.lower() of one character where it is one other character;
\* <<lo, hi, step, delta>>
LowerRanges ==
    {<<65, 90, 1, 32>>, <<192, 214, 1, 32>>, <<216, 222, 1, 32>>, <<256, 302, 2, 1>>,
     <<306, 310, 2, 1>>, <<313, 327, 2, 1>>, <<330, 374, 2, 1>>, <<376, 376, 1, -121>>,
     <<377, 381, 2, 1>>, <<385, 385, 1, 210>>, <<386, 388, 2, 1>>, <<390, 390, 1, 206>>,
     <<391, 391, 1, 1>>, <<393, 394, 1, 205>>, <<395, 395, 1, 1>>, <<398, 398, 1, 79>>,
     <<399, 399, 1, 202>>, <<400, 400, 1, 203>>, <<401, 401, 1, 1>>, <<403, 403, 1, 205>>,
     <<404, 404, 1, 207>>, <<406, 406, 1, 211>>, <<407, 407, 1, 209>>, <<408, 408, 1, 1>>,
     <<412, 412, 1, 211>>, <<413, 413, 1, 213>>, <<415, 415, 1, 214>>, <<416, 420, 2, 1>>,
     <<422, 422, 1, 218>>, <<423, 423, 1, 1>>, <<425, 425, 1, 218>>, <<428, 428, 1, 1>>,
     <<430, 430, 1, 218>>, <<431, 431, 1, 1>>, <<433, 434, 1, 217>>, <<435, 437, 2, 1>>,
     <<439, 439, 1, 219>>, <<440, 440, 1, 1>>, <<444, 444, 1, 1>>, <<452, 452, 1, 2>>,
     <<453, 453, 1, 1>>, <<455, 455, 1, 2>>, <<456, 456, 1, 1>>, <<458, 458, 1, 2>>,
     <<459, 475, 2, 1>>, <<478, 494, 2, 1>>, <<497, 497, 1, 2>>, <<498, 500, 2, 1>>,
     <<502, 502, 1, -97>>, <<503, 503, 1, -56>>, <<504, 542, 2, 1>>, <<544, 544, 1, -130>>,
     <<546, 562, 2, 1>>, <<570, 570, 1, 10795>>, <<571, 571, 1, 1>>, <<573, 573, 1, -163>>,
     <<574, 574, 1, 10792>>, <<577, 577, 1, 1>>, <<579, 579, 1, -195>>,
     <<580, 580, 1, 69>>, <<581, 581, 1, 71>>, <<582, 590, 2, 1>>, <<880, 882, 2, 1>>,
     <<886, 886, 1, 1>>, <<895, 895, 1, 116>>, <<902, 902, 1, 38>>, <<904, 906, 1, 37>>,
     <<908, 908, 1, 64>>, <<910, 911, 1, 63>>, <<913, 929, 1, 32>>, <<931, 939, 1, 32>>,
     <<975, 975, 1, 8>>, <<984, 1006, 2, 1>>, <<1012, 1012, 1, -60>>, <<1015, 1015, 1, 1>>,
     <<1017, 1017, 1, -7>>, <<1018, 1018, 1, 1>>, <<1021, 1023, 1, -130>>,
     <<1024, 1039, 1, 80>>, <<1040, 1071, 1, 32>>, <<1120, 1152, 2, 1>>,
     <<1162, 1214, 2, 1>>, <<1216, 1216, 1, 15>>, <<1217, 1229, 2, 1>>,
     <<1232, 1326, 2, 1>>, <<1329, 1366, 1, 48>>, <<4256, 4293, 1, 7264>>,
     <<4295, 4295, 1, 7264>>, <<4301, 4301, 1, 7264>>, <<5024, 5103, 1, 38864>>,
     <<5104, 5109, 1, 8>>, <<7312, 7354, 1, -3008>>, <<7357, 7359, 1, -3008>>,
     <<7680, 7828, 2, 1>>, <<7838, 7838, 1, -7615>>, <<7840, 7934, 2, 1>>,
     <<7944, 7951, 1, -8>>, <<7960, 7965, 1, -8>>, <<7976, 7983, 1, -8>>,
     <<7992, 7999, 1, -8>>, <<8008, 8013, 1, -8>>, <<8025, 8031, 2, -8>>,
     <<8040, 8047, 1, -8>>, <<8072, 8079, 1, -8>>, <<8088, 8095, 1, -8>>,
     <<8104, 8111, 1, -8>>, <<8120, 8121, 1, -8>>, <<8122, 8123, 1, -74>>,
     <<8124, 8124, 1, -9>>, <<8136, 8139, 1, -86>>, <<8140, 8140, 1, -9>>,
     <<8152, 8153, 1, -8>>, <<8154, 8155, 1, -100>>, <<8168, 8169, 1, -8>>,
     <<8170, 8171, 1, -112>>, <<8172, 8172, 1, -7>>, <<8184, 8185, 1, -128>>,
     <<8186, 8187, 1, -126>>, <<8188, 8188, 1, -9>>, <<8486, 8486, 1, -7517>>,
     <<8490, 8490, 1, -8383>>, <<8491, 8491, 1, -8262>>, <<8498, 8498, 1, 28>>,
     <<8544, 8559, 1, 16>>, <<8579, 8579, 1, 1>>, <<9398, 9423, 1, 26>>,
     <<11264, 11311, 1, 48>>, <<11360, 11360, 1, 1>>, <<11362, 11362, 1, -10743>>,
     <<11363, 11363, 1, -3814>>, <<11364, 11364, 1, -10727>>, <<11367, 11371, 2, 1>>,
     <<11373, 11373, 1, -10780>>, <<11374, 11374, 1, -10749>>, <<11375, 11375, 1, -10783>>,
     <<11376, 11376, 1, -10782>>, <<11378, 11378, 1, 1>>, <<11381, 11381, 1, 1>>,
     <<11390, 11391, 1, -10815>>, <<11392, 11490, 2, 1>>, <<11499, 11501, 2, 1>>,
     <<11506, 11506, 1, 1>>, <<42560, 42604, 2, 1>>, <<42624, 42650, 2, 1>>,
     <<42786, 42798, 2, 1>>, <<42802, 42862, 2, 1>>, <<42873, 42875, 2, 1>>,
     <<42877, 42877, 1, -35332>>, <<42878, 42886, 2, 1>>, <<42891, 42891, 1, 1>>,
     <<42893, 42893, 1, -42280>>, <<42896, 42898, 2, 1>>, <<42902, 42920, 2, 1>>,
     <<42922, 42922, 1, -42308>>, <<42923, 42923, 1, -42319>>, <<42924, 42924, 1, -42315>>,
     <<42925, 42925, 1, -42305>>, <<42926, 42926, 1, -42308>>, <<42928, 42928, 1, -42258>>,
     <<42929, 42929, 1, -42282>>, <<42930, 42930, 1, -42261>>, <<42931, 42931, 1, 928>>,
     <<42932, 42946, 2, 1>>, <<42948, 42948, 1, -48>>, <<42949, 42949, 1, -42307>>,
     <<42950, 42950, 1, -35384>>, <<42951, 42953, 2, 1>>, <<42960, 42960, 1, 1>>,
     <<42966, 42968, 2, 1>>, <<42997, 42997, 1, 1>>, <<65313, 65338, 1, 32>>,
     <<66560, 66599, 1, 40>>, <<66736, 66771, 1, 40>>, <<66928, 66938, 1, 39>>,
     <<66940, 66954, 1, 39>>, <<66956, 66962, 1, 39>>, <<66964, 66965, 1, 39>>,
     <<68736, 68786, 1, 64>>, <<71840, 71871, 1, 32>>, <<93760, 93791, 1, 32>>,
     <<125184, 125217, 1, 34>>}

\* str.lower() of one character where it is several characters; <<code point, result>>
LowerSpecial ==
    {<<304, <<105, 775>>>>}

\* the case-ignorable characters, which str.lower() skips on either side of a
\* capital sigma; <<lo, hi>>
CaseIgnorable ==
    {<<39, 39>>, <<46, 46>>, <<58, 58>>, <<94, 94>>, <<96, 96>>, <<168, 168>>,
     <<173, 173>>, <<175, 175>>, <<180, 180>>, <<183, 184>>, <<688, 879>>, <<884, 885>>,
     <<890, 890>>, <<900, 901>>, <<903, 903>>, <<1155, 1161>>, <<1369, 1369>>,
     <<1375, 1375>>, <<1425, 1469>>, <<1471, 1471>>, <<1473, 1474>>, <<1476, 1477>>,
     <<1479, 1479>>, <<1524, 1524>>, <<1536, 1541>>, <<1552, 1562>>, <<1564, 1564>>,
     <<1600, 1600>>, <<1611, 1631>>, <<1648, 1648>>, <<1750, 1757>>, <<1759, 1768>>,
     <<1770, 1773>>, <<1807, 1807>>, <<1809, 1809>>, <<1840, 1866>>, <<1958, 1968>>,
     <<2027, 2037>>, <<2042, 2042>>, <<2045, 2045>>, <<2070, 2093>>, <<2137, 2139>>,
     <<2184, 2184>>, <<2192, 2193>>, <<2200, 2207>>, <<2249, 2306>>, <<2362, 2362>>,
     <<2364, 2364>>, <<2369, 2376>>, <<2381, 2381>>, <<2385, 2391>>, <<2402, 2403>>,
     <<2417, 2417>>, <<2433, 2433>>, <<2492, 2492>>, <<2497, 2500>>, <<2509, 2509>>,
     <<2530, 2531>>, <<2558, 2558>>, <<2561, 2562>>, <<2620, 2620>>, <<2625, 2626>>,
     <<2631, 2632>>, <<2635, 2637>>, <<2641, 2641>>, <<2672, 2673>>, <<2677, 2677>>,
     <<2689, 2690>>, <<2748, 2748>>, <<2753, 2757>>, <<2759, 2760>>, <<2765, 2765>>,
     <<2786, 2787>>, <<2810, 2815>>, <<2817, 2817>>, <<2876, 2876>>, <<2879, 2879>>,
     <<2881, 2884>>, <<2893, 2893>>, <<2901, 2902>>, <<2914, 2915>>, <<2946, 2946>>,
     <<3008, 3008>>, <<3021, 3021>>, <<3072, 3072>>, <<3076, 3076>>, <<3132, 3132>>,
     <<3134, 3136>>, <<3142, 3144>>, <<3146, 3149>>, <<3157, 3158>>, <<3170, 3171>>,
     <<3201, 3201>>, <<3260, 3260>>, <<3263, 3263>>, <<3270, 3270>>, <<3276, 3277>>,
     <<3298, 3299>>, <<3328, 3329>>, <<3387, 3388>>, <<3393, 3396>>, <<3405, 3405>>,
     <<3426, 3427>>, <<3457, 3457>>, <<3530, 3530>>, <<3538, 3540>>, <<3542, 3542>>,
     <<3633, 3633>>, <<3636, 3642>>, <<3654, 3662>>, <<3761, 3761>>, <<3764, 3772>>,
     <<3782, 3782>>, <<3784, 3789>>, <<3864, 3865>>, <<3893, 3893>>, <<3895, 3895>>,
     <<3897, 3897>>, <<3953, 3966>>, <<3968, 3972>>, <<3974, 3975>>, <<3981, 3991>>,
     <<3993, 4028>>, <<4038, 4038>>, <<4141, 4144>>, <<4146, 4151>>, <<4153, 4154>>,
     <<4157, 4158>>, <<4184, 4185>>, <<4190, 4192>>, <<4209, 4212>>, <<4226, 4226>>,
     <<4229, 4230>>, <<4237, 4237>>, <<4253, 4253>>, <<4348, 4348>>, <<4957, 4959>>,
     <<5906, 5908>>, <<5938, 5939>>, <<5970, 5971>>, <<6002, 6003>>, <<6068, 6069>>,
     <<6071, 6077>>, <<6086, 6086>>, <<6089, 6099>>, <<6103, 6103>>, <<6109, 6109>>,
     <<6155, 6159>>, <<6211, 6211>>, <<6277, 6278>>, <<6313, 6313>>, <<6432, 6434>>,
     <<6439, 6440>>, <<6450, 6450>>, <<6457, 6459>>, <<6679, 6680>>, <<6683, 6683>>,
     <<6742, 6742>>, <<6744, 6750>>, <<6752, 6752>>, <<6754, 6754>>, <<6757, 6764>>,
     <<6771, 6780>>, <<6783, 6783>>, <<6823, 6823>>, <<6832, 6862>>, <<6912, 6915>>,
     <<6964, 6964>>, <<6966, 6970>>, <<6972, 6972>>, <<6978, 6978>>, <<7019, 7027>>,
     <<7040, 7041>>, <<7074, 7077>>, <<7080, 7081>>, <<7083, 7085>>, <<7142, 7142>>,
     <<7144, 7145>>, <<7149, 7149>>, <<7151, 7153>>, <<7212, 7219>>, <<7222, 7223>>,
     <<7288, 7293>>, <<7376, 7378>>, <<7380, 7392>>, <<7394, 7400>>, <<7405, 7405>>,
     <<7412, 7412>>, <<7416, 7417>>, <<7468, 7530>>, <<7544, 7544>>, <<7579, 7679>>,
     <<8125, 8125>>, <<8127, 8129>>, <<8141, 8143>>, <<8157, 8159>>, <<8173, 8175>>,
     <<8189, 8190>>, <<8203, 8207>>, <<8216, 8217>>, <<8228, 8228>>, <<8231, 8231>>,
     <<8234, 8238>>, <<8288, 8292>>, <<8294, 8303>>, <<8305, 8305>>, <<8319, 8319>>,
     <<8336, 8348>>, <<8400, 8432>>, <<11388, 11389>>, <<11503, 11505>>, <<11631, 11631>>,
     <<11647, 11647>>, <<11744, 11775>>, <<11823, 11823>>, <<12293, 12293>>,
     <<12330, 12333>>, <<12337, 12341>>, <<12347, 12347>>, <<12441, 12446>>,
     <<12540, 12542>>, <<40981, 40981>>, <<42232, 42237>>, <<42508, 42508>>,
     <<42607, 42610>>, <<42612, 42621>>, <<42623, 42623>>, <<42652, 42655>>,
     <<42736, 42737>>, <<42752, 42785>>, <<42864, 42864>>, <<42888, 42890>>,
     <<42994, 42996>>, <<43000, 43001>>, <<43010, 43010>>, <<43014, 43014>>,
     <<43019, 43019>>, <<43045, 43046>>, <<43052, 43052>>, <<43204, 43205>>,
     <<43232, 43249>>, <<43263, 43263>>, <<43302, 43309>>, <<43335, 43345>>,
     <<43392, 43394>>, <<43443, 43443>>, <<43446, 43449>>, <<43452, 43453>>,
     <<43471, 43471>>, <<43493, 43494>>, <<43561, 43566>>, <<43569, 43570>>,
     <<43573, 43574>>, <<43587, 43587>>, <<43596, 43596>>, <<43632, 43632>>,
     <<43644, 43644>>, <<43696, 43696>>, <<43698, 43700>>, <<43703, 43704>>,
     <<43710, 43711>>, <<43713, 43713>>, <<43741, 43741>>, <<43756, 43757>>,
     <<43763, 43764>>, <<43766, 43766>>, <<43867, 43871>>, <<43881, 43883>>,
     <<44005, 44005>>, <<44008, 44008>>, <<44013, 44013>>, <<64286, 64286>>,
     <<64434, 64450>>, <<65024, 65039>>, <<65043, 65043>>, <<65056, 65071>>,
     <<65106, 65106>>, <<65109, 65109>>, <<65279, 65279>>, <<65287, 65287>>,
     <<65294, 65294>>, <<65306, 65306>>, <<65342, 65342>>, <<65344, 65344>>,
     <<65392, 65392>>, <<65438, 65439>>, <<65507, 65507>>, <<65529, 65531>>,
     <<66045, 66045>>, <<66272, 66272>>, <<66422, 66426>>, <<67456, 67461>>,
     <<67463, 67504>>, <<67506, 67514>>, <<68097, 68099>>, <<68101, 68102>>,
     <<68108, 68111>>, <<68152, 68154>>, <<68159, 68159>>, <<68325, 68326>>,
     <<68900, 68903>>, <<69291, 69292>>, <<69446, 69456>>, <<69506, 69509>>,
     <<69633, 69633>>, <<69688, 69702>>, <<69744, 69744>>, <<69747, 69748>>,
     <<69759, 69761>>, <<69811, 69814>>, <<69817, 69818>>, <<69821, 69821>>,
     <<69826, 69826>>, <<69837, 69837>>, <<69888, 69890>>, <<69927, 69931>>,
     <<69933, 69940>>, <<70003, 70003>>, <<70016, 70017>>, <<70070, 70078>>,
     <<70089, 70092>>, <<70095, 70095>>, <<70191, 70193>>, <<70196, 70196>>,
     <<70198, 70199>>, <<70206, 70206>>, <<70367, 70367>>, <<70371, 70378>>,
     <<70400, 70401>>, <<70459, 70460>>, <<70464, 70464>>, <<70502, 70508>>,
     <<70512, 70516>>, <<70712, 70719>>, <<70722, 70724>>, <<70726, 70726>>,
     <<70750, 70750>>, <<70835, 70840>>, <<70842, 70842>>, <<70847, 70848>>,
     <<70850, 70851>>, <<71090, 71093>>, <<71100, 71101>>, <<71103, 71104>>,
     <<71132, 71133>>, <<71219, 71226>>, <<71229, 71229>>, <<71231, 71232>>,
     <<71339, 71339>>, <<71341, 71341>>, <<71344, 71349>>, <<71351, 71351>>,
     <<71453, 71455>>, <<71458, 71461>>, <<71463, 71467>>, <<71727, 71735>>,
     <<71737, 71738>>, <<71995, 71996>>, <<71998, 71998>>, <<72003, 72003>>,
     <<72148, 72151>>, <<72154, 72155>>, <<72160, 72160>>, <<72193, 72202>>,
     <<72243, 72248>>, <<72251, 72254>>, <<72263, 72263>>, <<72273, 72278>>,
     <<72281, 72283>>, <<72330, 72342>>, <<72344, 72345>>, <<72752, 72758>>,
     <<72760, 72765>>, <<72767, 72767>>, <<72850, 72871>>, <<72874, 72880>>,
     <<72882, 72883>>, <<72885, 72886>>, <<73009, 73014>>, <<73018, 73018>>,
     <<73020, 73021>>, <<73023, 73029>>, <<73031, 73031>>, <<73104, 73105>>,
     <<73109, 73109>>, <<73111, 73111>>, <<73459, 73460>>, <<78896, 78904>>,
     <<92912, 92916>>, <<92976, 92982>>, <<92992, 92995>>, <<94031, 94031>>,
     <<94095, 94111>>, <<94176, 94177>>, <<94179, 94180>>, <<110576, 110579>>,
     <<110581, 110587>>, <<110589, 110590>>, <<113821, 113822>>, <<113824, 113827>>,
     <<118528, 118573>>, <<118576, 118598>>, <<119143, 119145>>, <<119155, 119170>>,
     <<119173, 119179>>, <<119210, 119213>>, <<119362, 119364>>, <<121344, 121398>>,
     <<121403, 121452>>, <<121461, 121461>>, <<121476, 121476>>, <<121499, 121503>>,
     <<121505, 121519>>, <<122880, 122886>>, <<122888, 122904>>, <<122907, 122913>>,
     <<122915, 122916>>, <<122918, 122922>>, <<123184, 123197>>, <<123566, 123566>>,
     <<123628, 123631>>, <<125136, 125142>>, <<125252, 125259>>, <<127995, 127999>>,
     <<917505, 917505>>, <<917536, 917631>>, <<917760, 917999>>}

\* the cased characters that are not case-ignorable; <<lo, hi>>
Cased ==
    {<<65, 90>>, <<97, 122>>, <<170, 170>>, <<181, 181>>, <<186, 186>>, <<192, 214>>,
     <<216, 246>>, <<248, 442>>, <<444, 447>>, <<452, 659>>, <<661, 687>>, <<880, 883>>,
     <<886, 887>>, <<891, 893>>, <<895, 895>>, <<902, 902>>, <<904, 906>>, <<908, 908>>,
     <<910, 929>>, <<931, 1013>>, <<1015, 1153>>, <<1162, 1327>>, <<1329, 1366>>,
     <<1376, 1416>>, <<4256, 4293>>, <<4295, 4295>>, <<4301, 4301>>, <<4304, 4346>>,
     <<4349, 4351>>, <<5024, 5109>>, <<5112, 5117>>, <<7296, 7304>>, <<7312, 7354>>,
     <<7357, 7359>>, <<7424, 7467>>, <<7531, 7543>>, <<7545, 7578>>, <<7680, 7957>>,
     <<7960, 7965>>, <<7968, 8005>>, <<8008, 8013>>, <<8016, 8023>>, <<8025, 8025>>,
     <<8027, 8027>>, <<8029, 8029>>, <<8031, 8061>>, <<8064, 8116>>, <<8118, 8124>>,
     <<8126, 8126>>, <<8130, 8132>>, <<8134, 8140>>, <<8144, 8147>>, <<8150, 8155>>,
     <<8160, 8172>>, <<8178, 8180>>, <<8182, 8188>>, <<8450, 8450>>, <<8455, 8455>>,
     <<8458, 8467>>, <<8469, 8469>>, <<8473, 8477>>, <<8484, 8484>>, <<8486, 8486>>,
     <<8488, 8488>>, <<8490, 8493>>, <<8495, 8500>>, <<8505, 8505>>, <<8508, 8511>>,
     <<8517, 8521>>, <<8526, 8526>>, <<8544, 8575>>, <<8579, 8580>>, <<9398, 9449>>,
     <<11264, 11387>>, <<11390, 11492>>, <<11499, 11502>>, <<11506, 11507>>,
     <<11520, 11557>>, <<11559, 11559>>, <<11565, 11565>>, <<42560, 42605>>,
     <<42624, 42651>>, <<42786, 42863>>, <<42865, 42887>>, <<42891, 42894>>,
     <<42896, 42954>>, <<42960, 42961>>, <<42963, 42963>>, <<42965, 42969>>,
     <<42997, 42998>>, <<43002, 43002>>, <<43824, 43866>>, <<43872, 43880>>,
     <<43888, 43967>>, <<64256, 64262>>, <<64275, 64279>>, <<65313, 65338>>,
     <<65345, 65370>>, <<66560, 66639>>, <<66736, 66771>>, <<66776, 66811>>,
     <<66928, 66938>>, <<66940, 66954>>, <<66956, 66962>>, <<66964, 66965>>,
     <<66967, 66977>>, <<66979, 66993>>, <<66995, 67001>>, <<67003, 67004>>,
     <<68736, 68786>>, <<68800, 68850>>, <<71840, 71903>>, <<93760, 93823>>,
     <<119808, 119892>>, <<119894, 119964>>, <<119966, 119967>>, <<119970, 119970>>,
     <<119973, 119974>>, <<119977, 119980>>, <<119982, 119993>>, <<119995, 119995>>,
     <<119997, 120003>>, <<120005, 120069>>, <<120071, 120074>>, <<120077, 120084>>,
     <<120086, 120092>>, <<120094, 120121>>, <<120123, 120126>>, <<120128, 120132>>,
     <<120134, 120134>>, <<120138, 120144>>, <<120146, 120485>>, <<120488, 120512>>,
     <<120514, 120538>>, <<120540, 120570>>, <<120572, 120596>>, <<120598, 120628>>,
     <<120630, 120654>>, <<120656, 120686>>, <<120688, 120712>>, <<120714, 120744>>,
     <<120746, 120770>>, <<120772, 120779>>, <<122624, 122633>>, <<122635, 122654>>,
     <<125184, 125251>>, <<127280, 127305>>, <<127312, 127337>>, <<127344, 127369>>}

\* the case mapping of the character c in a table of ranges and special cases
CaseMapped(c, ranges, special) ==
    IF \E p \in special : p[1] = c
    THEN (CHOOSE p \in special : p[1] = c)[2]
    ELSE IF \E r \in ranges : r[1] <= c /\ c <= r[2] /\ (c - r[1]) % r[3] = 0
    THEN <<c + (CHOOSE r \in ranges :
                    r[1] <= c /\ c <= r[2] /\ (c - r[1]) % r[3] = 0)[4]>>
    ELSE <<c>>

\* str.upper() of the one character c: a text of one or more characters
UpperChar(c) == CaseMapped(c, UpperRanges, UpperSpecial)

\* str.lower() of the one character c
LowerChar(c) == CaseMapped(c, LowerRanges, LowerSpecial)

\* "".join(parts)
RECURSIVE Flatten(_)
Flatten(parts) == IF parts = <<>> THEN <<>> ELSE Head(parts) \o Flatten(Tail(parts))

\* str.upper()
upper(s) == Flatten([i \in 1..Len(s) |-> UpperChar(s[i])])

\* str.lower() of the capital sigma at s[i]: the final sigma U+03C2 when a cased
\* character comes before it (case-ignorable ones skipped) and none comes after it
\* (case-ignorable ones skipped), the small sigma U+03C3 otherwise
LowerSigma(s, i) ==
    LET before == {j \in 1..(i - 1) : ~InRanges(s[j], CaseIgnorable)}
        after == {j \in (i + 1)..Len(s) : ~InRanges(s[j], CaseIgnorable)}
        prev == CHOOSE j \in before : \A k \in before : k <= j
        next == CHOOSE j \in after : \A k \in after : j <= k
    IN  IF /\ before # {}
           /\ InRanges(s[prev], Cased)
           /\ (after = {} \/ ~InRanges(s[next], Cased))
        THEN 962 ELSE 963

\* str.lower()
lower(s) ==
    Flatten([i \in 1..Len(s) |-> IF s[i] = 931 THEN <<LowerSigma(s, i)>>
                                  ELSE LowerChar(s[i])])

\* str.strip(): drop leading and trailing whitespace
strip(s) ==
    LET keep == {i \in 1..Len(s) : s[i] \notin Whitespace}
        first == CHOOSE i \in keep : \A j \in keep : i <= j
        last == CHOOSE i \in keep : \A j \in keep : i >= j
    IN  IF keep = {} THEN <<>> ELSE SubSeq(s, first, last)

\* s[:n]
Prefix(s, n) == SubSeq(s, 1, IF Len(s) < n THEN Len(s) ELSE n)

\* s[-n:]
Suffix(s, n) == SubSeq(s, IF Len(s) > n THEN Len(s) - n + 1 ELSE 1, Len(s))

\* a text of n copies of the character c
Repeat(c, n) == [i \in 1..n |-> c]

\* "\n\n".join(parts)
RECURSIVE JoinBlank(_)
JoinBlank(parts) ==
    IF parts = <<>> THEN <<>>
    ELSE IF Len(parts) = 1 THEN parts[1]
    ELSE parts[1] \o Text(<<"\n", "\n">>) \o JoinBlank(Tail(parts))

(****************************** literal texts ******************************)

\* 'Search unavailable: '  src/dual_model_assistant.py:84 / src/advanced_example.py:59
TxtSearchUnavailable ==
    Text(<<"S","e","a","r","c","h"," ","u","n","a","v","a","i","l","a","b","l","e",":"," ">>)
\* '. Using model knowledge only.'  src/dual_model_assistant.py:84
TxtModelKnowledgeOnly ==
    Text(<<"."," ","U","s","i","n","g"," ","m","o","d","e","l"," ","k","n","o","w","l","e","d",
      "g","e"," ","o","n","l","y",".">>)
\* '. Using general knowledge only.'  src/advanced_example.py:59
TxtGeneralKnowledgeOnly ==
    Text(<<"."," ","U","s","i","n","g"," ","g","e","n","e","r","a","l"," ","k","n","o","w","l",
      "e","d","g","e"," ","o","n","l","y",".">>)
\* 'Qwen model error: '  src/dual_model_assistant.py:110
TxtQwenModelError ==
    Text(<<"Q","w","e","n"," ","m","o","d","e","l"," ","e","r","r","o","r",":"," ">>)
\* 'GPT model error: '  src/dual_model_assistant.py:118
TxtGptModelError ==
    Text(<<"G","P","T"," ","m","o","d","e","l"," ","e","r","r","o","r",":"," ">>)
\* '**Combined Response:**\n\n**Qwen3-VL:** '  src/dual_model_assistant.py:132
TxtCombinedQwen ==
    Text(<<"*","*","C","o","m","b","i","n","e","d"," ","R","e","s","p","o","n","s","e",":","*",
      "*","\n","\n","*","*","Q","w","e","n","3","-","V","L",":","*","*"," ">>)
\* '\n\n**GPT-OSS:** '  src/dual_model_assistant.py:132
TxtCombinedGpt ==
    Text(<<"\n","\n","*","*","G","P","T","-","O","S","S",":","*","*"," ">>)
\* '**Model Used:** Qwen3-VL'  src/dual_model_assistant.py:146
TxtInfoQwen ==
    Text(<<"*","*","M","o","d","e","l"," ","U","s","e","d",":","*","*"," ","Q","w","e","n","3",
      "-","V","L">>)
\* '**Model Used:** GPT-OSS'  src/dual_model_assistant.py:151
TxtInfoGpt ==
    Text(<<"*","*","M","o","d","e","l"," ","U","s","e","d",":","*","*"," ","G","P","T","-","O",
      "S","S">>)
\* '**Models Used:** Qwen3-VL + GPT-OSS (Combined)'  src/dual_model_assistant.py:160
TxtInfoBoth ==
    Text(<<"*","*","M","o","d","e","l","s"," ","U","s","e","d",":","*","*"," ","Q","w","e","n",
      "3","-","V","L"," ","+"," ","G","P","T","-","O","S","S"," ","(","C","o","m","b","i",
      "n","e","d",")">>)
\* '**Models Used:** Qwen3-VL → GPT-OSS (Sequential)'  src/dual_model_assistant.py:168
TxtInfoSequential ==
    Text(<<"*","*","M","o","d","e","l","s"," ","U","s","e","d",":","*","*"," ","Q","w","e","n",
      "3","-","V","L"," ">>)
    \o <<8594>>  \* the arrow U+2192
    \o Text(<<" ","G","P","T","-","O","S","S"," ","(","S","e","q","u","e","n","t","i","a",
             "l",")">>)
\* 'Previous analysis: '  src/dual_model_assistant.py:166
TxtPreviousAnalysis ==
    Text(<<"P","r","e","v","i","o","u","s"," ","a","n","a","l","y","s","i","s",":"," ">>)
\* '\n\nOriginal context: '  src/dual_model_assistant.py:166
TxtOriginalContext ==
    Text(<<"\n","\n","O","r","i","g","i","n","a","l"," ","c","o","n","t","e","x","t",":"," ">>)
\* '\n\n'  src/dual_model_assistant.py:170
TxtBlankLine ==
    Text(<<"\n","\n">>)
\* '...'  src/dual_model_assistant.py:177
TxtEllipsis ==
    Text(<<".",".",".">>)
\* 'No previous conversation.'  src/advanced_example.py:64
TxtNoPrevious ==
    Text(<<"N","o"," ","p","r","e","v","i","o","u","s"," ","c","o","n","v","e","r","s","a","t",
      "i","o","n",".">>)
\* 'Q: '  src/advanced_example.py:74
TxtQ ==
    Text(<<"Q",":"," ">>)
\* '\nA: '  src/advanced_example.py:74
TxtA ==
    Text(<<"\n","A",":"," ">>)
\* 'Qwen3-VL Error: '  src/simple_dual_model.py:83
TxtSimpleQwenError ==
    Text(<<"Q","w","e","n","3","-","V","L"," ","E","r","r","o","r",":"," ">>)
\* 'GPT-OSS Error: '  src/simple_dual_model.py:89
TxtSimpleGptError ==
    Text(<<"G","P","T","-","O","S","S"," ","E","r","r","o","r",":"," ">>)
\* 'QWEN'
LabelQwen ==
    Text(<<"Q","W","E","N">>)
\* 'GPT'
LabelGpt ==
    Text(<<"G","P","T">>)
\* 'BOTH'
LabelBoth ==
    Text(<<"B","O","T","H">>)
\* 'QWEN_THEN_GPT'
LabelQwenThenGpt ==
    Text(<<"Q","W","E","N","_","T","H","E","N","_","G","P","T">>)
\* 'exit'
CmdExit ==
    Text(<<"e","x","i","t">>)
\* 'quit'
CmdQuit ==
    Text(<<"q","u","i","t">>)
\* 'bye'
CmdBye ==
    Text(<<"b","y","e">>)
\* 'goodbye'
CmdGoodbye ==
    Text(<<"g","o","o","d","b","y","e">>)
\* 'save'
CmdSave ==
    Text(<<"s","a","v","e">>)
\* 'clear'
CmdClear ==
    Text(<<"c","l","e","a","r">>)
\* 'clear history'
CmdClearHistory ==
    Text(<<"c","l","e","a","r"," ","h","i","s","t","o","r","y">>)
\* 'models'
CmdModels ==
    Text(<<"m","o","d","e","l","s">>)

(**************************** program constants ****************************)

\* len(self.conversation_history) > 20 ; [-20:]
HistoryCap == 20

\* answer[:300] (dual-model variant)
HistoryBudget == 300

\* self.conversation_history[-6:]
RecentEntries == 6

\* a[:200]
FormatBudget == 200

Labels == {LabelQwen, LabelGpt, LabelBoth, LabelQwenThenGpt}

ExitCommands == {CmdExit, CmdQuit, CmdBye, CmdGoodbye}

ClearCommands == {CmdClear, CmdClearHistory}

None == <<>>

\* the result of a call of an external service: a text, or an Exception with str(e)
Returned(text) == [ok |-> TRUE, val |-> text]

Raised(cause) == [ok |-> FALSE, val |-> cause]

(************************ DualModelRAGAssistant ****************************)

\* search_with_error_handling, handing the failure's text on as the context
search_with_error_handling_bare(out) == out.val

\* try: return self.search.run(question) / except: return f"Search unavailable: ..."
search_with_error_handling(out) ==
    IF out.ok THEN out.val
    ELSE TxtSearchUnavailable \o out.val \o TxtModelKnowledgeOnly

\* determine_model_strategy without .strip()
determine_model_strategy_unstripped(out) ==
    IF out.ok
    THEN LET s == upper(out.val)
         IN  IF s \notin Labels THEN LabelGpt ELSE s
    ELSE LabelGpt

\* out: the coordinator chain's invoke
determine_model_strategy(out) ==
    IF out.ok
    THEN LET s == upper(strip(out.val))
         IN  IF s \notin Labels THEN LabelGpt ELSE s
    ELSE LabelGpt

get_qwen_response(out) ==
    IF out.ok THEN out.val ELSE TxtQwenModelError \o out.val

get_gpt_response(out) ==
    IF out.ok THEN out.val ELSE TxtGptModelError \o out.val

\* combine_responses with the two sections in the other order
combine_responses_gpt_first(question, ctx, qwen, gpt, out) ==
    IF out.ok THEN out.val
    ELSE TxtCombinedQwen \o gpt \o TxtCombinedGpt \o qwen

combine_responses(question, ctx, qwen, gpt, out) ==
    IF out.ok THEN out.val
    ELSE TxtCombinedQwen \o qwen \o TxtCombinedGpt \o gpt

\* process_question: model_info of each branch
model_info(strat) ==
    CASE strat = LabelQwen -> TxtInfoQwen
      [] strat = LabelGpt -> TxtInfoGpt
      [] strat = LabelBoth -> TxtInfoBoth
      [] strat = LabelQwenThenGpt -> TxtInfoSequential

\* refined_context with the original context before the analysis
refined_context_swapped(qwen, ctx) ==
    TxtPreviousAnalysis \o ctx \o TxtOriginalContext \o qwen

\* process_question: refined_context
refined_context(qwen, ctx) ==
    TxtPreviousAnalysis \o qwen \o TxtOriginalContext \o ctx

\* process_question: return f"{model_info}\n\n{response}"
process_result(strat, resp) == model_info(strat) \o TxtBlankLine \o resp

\* f"[{timestamp}] {text}"
Stamped(ts, text) == Text(<<"[">>) \o ts \o Text(<<"]", " ">>) \o text

\* history_entries, marking only an answer that was cut
history_entries_marked_when_cut(question, answer, ts) ==
    <<Stamped(ts, question),
      Stamped(ts, IF Len(answer) > HistoryBudget
                  THEN Prefix(answer, HistoryBudget) \o TxtEllipsis
                  ELSE answer)>>

\* the two entries add_to_history extends the history with
history_entries(question, answer, ts) ==
    <<Stamped(ts, question), Stamped(ts, Prefix(answer, HistoryBudget) \o TxtEllipsis)>>

\* keep_last, keeping the oldest entries instead: h[:20]
keep_last_oldest(h) == IF Len(h) > HistoryCap THEN Prefix(h, HistoryCap) ELSE h

\* if len(h) > 20: h = h[-20:]
keep_last(h) == IF Len(h) > HistoryCap THEN Suffix(h, HistoryCap) ELSE h

add_to_history(h, question, answer, ts) ==
    keep_last(h \o history_entries(question, answer, ts))

(************************* AdvancedRAGAssistant ****************************)

Adv_search_with_error_handling(out) ==
    IF out.ok THEN out.val
    ELSE TxtSearchUnavailable \o out.val \o TxtGeneralKnowledgeOnly

\* for i in range(0, len(recent), 2): if i + 1 < len(recent): "Q: q\nA: a[:200]..."
format_blocks(recent) ==
    LET starts == {i \in 1..Len(recent) : i % 2 = 1 /\ i + 1 <= Len(recent)}
        block(i) == TxtQ \o recent[i] \o TxtA \o Prefix(recent[i + 1], FormatBudget)
                    \o TxtEllipsis
    IN  [k \in 1..Cardinality(starts) |-> block(2 * k - 1)]

\* format_history without its test for an empty history
format_history_unguarded(h) == JoinBlank(format_blocks(Suffix(h, RecentEntries)))

format_history(h) ==
    IF h = <<>> THEN TxtNoPrevious
    ELSE JoinBlank(format_blocks(Suffix(h, RecentEntries)))

Adv_history_entries(question, answer, ts) ==
    <<Stamped(ts, question), Stamped(ts, answer)>>

\* Adv_keep_last, keeping one entry fewer: h[-19:]
Adv_keep_last_odd(h) == IF Len(h) > HistoryCap THEN Suffix(h, HistoryCap - 1) ELSE h

\* if len(h) > 20: h = h[-20:]
Adv_keep_last(h) == IF Len(h) > HistoryCap THEN Suffix(h, HistoryCap) ELSE h

Adv_add_to_history(h, question, answer, ts) ==
    Adv_keep_last(h \o Adv_history_entries(question, answer, ts))

(***************************** the environment *****************************)

\* how many exchanges a run records between two clears
MaxExchanges == 1

\* lines the user types (input() returns them without the line end)
Inputs ==
    { Text(<<"e","x","i","t">>), Text(<<"Q","U","I","T"," ">>), Text(<<" ","B","y","e">>),
      Text(<<"G","o","o","d","B","y","e">>),
      Text(<<"s","a","v","e">>), Text(<<"S","A","V","E">>),
      Text(<<"c","l","e","a","r">>), Text(<<"C","l","e","a","r"," ","H","i","s","t","o","r","y">>),
      Text(<<"m","o","d","e","l","s">>),
      <<>>, Text(<<" "," ">>),
      Text(<<" ","H","i"," ">>), Text(<<"e","x","i","t"," ","n","o","w">>),
      <<11>> \o Text(<<"E","x","i","t">>) \o <<160>> }  \* '\x0bExit\xa0'


\* datetime.now().strftime("%H:%M") as the clock advances
Times == << Text(<<"0","9",":","0","5">>), Text(<<"0","9",":","0","6">>) >>

CauseTimeout == Text(<<"t","i","m","e","o","u","t">>)

CauseDown == Text(<<"d","o","w","n">>)

CauseEOF == Text(<<"E","O","F">>)

CauseDiskFull == Text(<<"d","i","s","k"," ","f","u","l","l">>)

\* self.search.run(question)
SearchOutcomes == {Returned(Text(<<"P","a","r","i","s">>)), Raised(CauseTimeout)}

\* what the coordinator chain answers
CoordinatorTexts ==
    { Text(<<" ","q","w","e","n">>), Text(<<"G","P","T">>), Text(<<"B","o","t","h">>),
      Text(<<"q","w","e","n","_","t","h","e","n","_","g","p","t"," ">>),
      Text(<<"M","A","Y","B","E">>), Text(<<"Q","W","E","N"," ","G","P","T">>), <<>>,
      <<8195>> \o Text(<<"b","o","t","h">>) \o <<160>> }  \* '\u2003both\xa0'


CoordinatorOutcomes == {Returned(t) : t \in CoordinatorTexts} \cup {Raised(CauseDown)}

QwenOutcomes == {Returned(Text(<<"Q","a">>)), Raised(CauseDown)}

GptOutcomes == {Returned(Text(<<"G","a">>)), Raised(CauseTimeout)}

CombinerOutcomes == {Returned(Text(<<"C","a">>)), Raised(CauseTimeout)}

\* open(filename, 'w') and json.dump
SaveOutcomes == {Returned(None), Raised(CauseDiskFull)}

\* input() raising an Exception that is not KeyboardInterrupt
InputFailures == {CauseEOF}

\* user_question = input(...).strip(), for each line
Typed == [inp \in Inputs |-> strip(inp)]

\* user_question.lower(), for each line
TypedLower == [inp \in Inputs |-> lower(strip(inp))]

Variants == {"dual", "advanced", "basic", "simple"}

\* the variants that keep a conversation history
HistoryVariants == {"dual", "advanced"}

\* one call of an external service: what it was given and how it ended
Call(op, question, ctx, hist, out) ==
    [op |-> op, question |-> question, context |-> ctx, history |-> hist, outcome |-> out]

Say(kind, text) == [kind |-> kind, text |-> text]

(********************************* start ***********************************)

Init ==
    /\ variant \in Variants
    /\ running = TRUE
    /\ pc = "input"
    /\ now = 1
    /\ conversation_history = <<>>
    /\ user_question = None
    /\ context = None
    /\ strategy = None
    /\ qwen_response = None
    /\ gpt_response = None
    /\ response = None
    /\ calls = <<>>
    /\ printed = Say("ready", None)
    /\ recorded = <<>>

\* the locals of process_question are unset when the next line is handled
DropLocals ==
    /\ context' = None
    /\ strategy' = None
    /\ qwen_response' = None
    /\ gpt_response' = None
    /\ response' = None

\* the handler of the loop boundary, leaving the loop after the apology
ApologiseAndStop(cause) ==
    /\ printed' = Say("apology", cause)
    /\ pc' = "done"
    /\ running' = FALSE
    /\ DropLocals
    /\ UNCHANGED <<variant, now, conversation_history, recorded>>

\* except Exception as e: print("Sorry, I encountered an error: ..."); the loop goes on
ApologiseAndContinue(cause) ==
    /\ printed' = Say("apology", cause)
    /\ pc' = "input"
    /\ DropLocals
    /\ UNCHANGED <<variant, running, now, conversation_history, recorded>>

\* the clock advances
Tick ==
    /\ running
    /\ now < Len(Times)
    /\ now' = now + 1
    /\ UNCHANGED <<variant, running, pc, conversation_history, user_question, context,
                   strategy, qwen_response, gpt_response, response, calls, printed,
                   recorded>>

(***************************** the main loop ******************************)

\* break: run() returns; the assistant object stays
Leave(kind) ==
    /\ running' = FALSE
    /\ pc' = "done"
    /\ printed' = Say(kind, None)
    /\ calls' = <<>>
    /\ DropLocals
    /\ UNCHANGED <<variant, now, conversation_history, recorded>>

AtInput == running /\ pc = "input"

\* one command: the loop reads a line, acts and returns to input()
CommandStep(inp, kind, text) ==
    /\ user_question' = Typed[inp]
    /\ printed' = Say(kind, text)
    /\ calls' = <<>>
    /\ DropLocals
    /\ UNCHANGED <<variant, now>>

\* if user_question.lower() in ['exit', 'quit', 'bye', 'goodbye']: break
ReadExit ==
    \E inp \in Inputs :
        /\ AtInput
        /\ TypedLower[inp] \in ExitCommands
        /\ user_question' = Typed[inp]
        /\ Leave("goodbye")

\* lowered: user_question.lower()
IsSave(v, lowered) == v \in HistoryVariants /\ lowered = CmdSave

IsClear(v, lowered) == v \in HistoryVariants /\ lowered \in ClearCommands

IsModels(v, lowered) == v = "dual" /\ lowered = CmdModels

\* save_conversation: the write succeeds or its Exception is caught and reported
save_conversation(out) == IF out.ok THEN Say("saved", None) ELSE Say("save_failed", out.val)

\* ReadSave without the try/except of save_conversation
ReadSave_Propagating ==
    \E inp \in Inputs, out \in SaveOutcomes :
        /\ AtInput
        /\ TypedLower[inp] \notin ExitCommands
        /\ IsSave(variant, TypedLower[inp])
        /\ user_question' = Typed[inp]
        /\ calls' = <<>>
        /\ IF out.ok
           THEN /\ printed' = Say("saved", None)
                /\ DropLocals
                /\ UNCHANGED <<variant, running, pc, now, conversation_history, recorded>>
           ELSE ApologiseAndContinue(out.val)

ReadSave ==
    \E inp \in Inputs, out \in SaveOutcomes :
        /\ AtInput
        /\ TypedLower[inp] \notin ExitCommands
        /\ IsSave(variant, TypedLower[inp])
        /\ CommandStep(inp, save_conversation(out).kind, save_conversation(out).text)
        /\ UNCHANGED <<running, pc, conversation_history, recorded>>

ReadClear ==
    \E inp \in Inputs :
        /\ AtInput
        /\ TypedLower[inp] \notin ExitCommands
        /\ ~IsSave(variant, TypedLower[inp])
        /\ IsClear(variant, TypedLower[inp])
        /\ CommandStep(inp, "cleared", None)
        /\ conversation_history' = <<>>
        /\ recorded' = <<>>
        /\ UNCHANGED <<running, pc>>

ReadModels ==
    \E inp \in Inputs :
        /\ AtInput
        /\ TypedLower[inp] \notin ExitCommands
        /\ ~IsSave(variant, TypedLower[inp])
        /\ ~IsClear(variant, TypedLower[inp])
        /\ IsModels(variant, TypedLower[inp])
        /\ CommandStep(inp, "models", None)
        /\ UNCHANGED <<running, pc, conversation_history, recorded>>

IsQuestion(v, q, lowered) ==
    /\ lowered \notin ExitCommands
    /\ ~IsSave(v, lowered)
    /\ ~IsClear(v, lowered)
    /\ ~IsModels(v, lowered)
    /\ q # <<>>

\* if not user_question: continue
ReadEmpty ==
    \E inp \in Inputs :
        /\ AtInput
        /\ Typed[inp] = <<>>
        /\ CommandStep(inp, "nothing", None)
        /\ UNCHANGED <<running, pc, conversation_history, recorded>>

\* any other line is a question: its processing starts with the web search
ReadQuestion ==
    \E inp \in Inputs :
        /\ AtInput
        /\ IsQuestion(variant, Typed[inp], TypedLower[inp])
        /\ variant \in HistoryVariants => Len(recorded) < 2 * MaxExchanges
        /\ user_question' = Typed[inp]
        /\ printed' = Say("searching", None)
        /\ calls' = <<>>
        /\ pc' = "search"
        /\ DropLocals
        /\ UNCHANGED <<variant, running, now, conversation_history, recorded>>

\* input() raises an Exception: caught at the loop boundary
InputFails ==
    \E cause \in InputFailures :
        /\ AtInput
        /\ ApologiseAndContinue(cause)
        /\ calls' = <<>>
        /\ UNCHANGED user_question

\* except KeyboardInterrupt: print("Goodbye!"); break
\* user_question keeps the line read last
Interrupt ==
    /\ running
    /\ UNCHANGED user_question
    /\ Leave("interrupted")

(****************** DualModelRAGAssistant.process_question *****************)

AtStep(v, step) == running /\ variant = v /\ pc = step

Frame == UNCHANGED <<variant, running, now, conversation_history, user_question, recorded>>

\* context = self.search_with_error_handling(question)
DualSearch ==
    \E out \in SearchOutcomes :
        /\ AtStep("dual", "search")
        /\ context' = search_with_error_handling(out)
        /\ calls' = Append(calls, Call("search", user_question, None, None, out))
        /\ pc' = "coordinator"
        /\ printed' = Say("determining", None)
        /\ UNCHANGED <<strategy, qwen_response, gpt_response, response>>
        /\ Frame

\* the step process_question takes first under a strategy
first_step(strat) == IF strat = LabelGpt THEN "gpt" ELSE "qwen"

\* strategy = self.determine_model_strategy(question, context)
DualCoordinator ==
    \E out \in CoordinatorOutcomes :
        /\ AtStep("dual", "coordinator")
        /\ strategy' = determine_model_strategy(out)
        /\ calls' = Append(calls, Call("coordinator", user_question, context, None, out))
        /\ pc' = first_step(strategy')
        /\ printed' = Say("strategy", strategy')
        /\ UNCHANGED <<context, qwen_response, gpt_response, response>>
        /\ Frame

\* the step that follows the Qwen call under a strategy
after_qwen(strat) == IF strat = LabelQwen THEN "record" ELSE "gpt"

\* DualQwen without the try/except of get_qwen_response
DualQwen_Propagating ==
    \E out \in QwenOutcomes :
        /\ AtStep("dual", "qwen")
        /\ calls' = Append(calls, Call("qwen", user_question, context, None, out))
        /\ UNCHANGED user_question
        /\ IF out.ok
           THEN /\ IF strategy = LabelQwen
                   THEN response' = out.val /\ UNCHANGED qwen_response
                   ELSE qwen_response' = out.val /\ UNCHANGED response
                /\ pc' = after_qwen(strategy)
                /\ UNCHANGED <<variant, running, now, conversation_history, recorded,
                               context, strategy, gpt_response, printed>>
           ELSE ApologiseAndContinue(out.val)

\* self.get_qwen_response(question, context)
DualQwen ==
    \E out \in QwenOutcomes :
        /\ AtStep("dual", "qwen")
        /\ calls' = Append(calls, Call("qwen", user_question, context, None, out))
        /\ IF strategy = LabelQwen
           THEN response' = get_qwen_response(out) /\ UNCHANGED qwen_response
           ELSE qwen_response' = get_qwen_response(out) /\ UNCHANGED response
        /\ pc' = after_qwen(strategy)
        /\ UNCHANGED <<context, strategy, gpt_response, printed>>
        /\ Frame

\* the context the GPT call receives under a strategy
gpt_context(strat, qwen, ctx) ==
    IF strat = LabelQwenThenGpt THEN refined_context(qwen, ctx) ELSE ctx

\* after_gpt, sending the sequential strategy through the combiner too
after_gpt_always_combines(strat) ==
    IF strat \in {LabelBoth, LabelQwenThenGpt} THEN "combiner" ELSE "record"

\* the step that follows the GPT call under a strategy
after_gpt(strat) == IF strat = LabelBoth THEN "combiner" ELSE "record"

\* self.get_gpt_response(question, context) / (question, refined_context)
DualGpt ==
    \E out \in GptOutcomes :
        /\ AtStep("dual", "gpt")
        /\ calls' = Append(calls, Call("gpt", user_question,
                                       gpt_context(strategy, qwen_response, context),
                                       None, out))
        /\ IF strategy = LabelBoth
           THEN gpt_response' = get_gpt_response(out) /\ UNCHANGED response
           ELSE response' = get_gpt_response(out) /\ UNCHANGED gpt_response
        /\ pc' = after_gpt(strategy)
        /\ UNCHANGED <<context, strategy, qwen_response, printed>>
        /\ Frame

\* response = self.combine_responses(question, context, qwen_response, gpt_response)
DualCombine ==
    \E out \in CombinerOutcomes :
        /\ AtStep("dual", "combiner")
        /\ calls' = Append(calls, Call("combiner", user_question, context, None, out))
        /\ response' = combine_responses(user_question, context, qwen_response,
                                         gpt_response, out)
        /\ pc' = "record"
        /\ UNCHANGED <<context, strategy, qwen_response, gpt_response, printed>>
        /\ Frame

\* return f"{model_info}\n\n{response}"; self.add_to_history(user_question, response); print
DualRecord ==
    /\ AtStep("dual", "record")
    /\ conversation_history' = add_to_history(conversation_history, user_question,
                                              process_result(strategy, response), Times[now])
    /\ recorded' = recorded \o history_entries(user_question,
                                               process_result(strategy, response), Times[now])
    /\ printed' = Say("answer", process_result(strategy, response))
    /\ pc' = "input"
    /\ UNCHANGED <<variant, running, now, user_question, calls, context, strategy,
                   qwen_response, gpt_response, response>>

(******************** AdvancedRAGAssistant: self.chain *********************)

\* RunnablePassthrough.assign(context=..., history=...)
AdvSearch ==
    \E out \in SearchOutcomes :
        /\ AtStep("advanced", "search")
        /\ context' = Adv_search_with_error_handling(out)
        /\ calls' = Append(calls, Call("search", user_question, None, None, out))
        /\ pc' = "llm"
        /\ UNCHANGED <<strategy, qwen_response, gpt_response, response, printed>>
        /\ Frame

\* | self.prompt | self.llm | StrOutputParser(): a failure leaves chain.invoke
AdvLlm ==
    \E out \in GptOutcomes :
        /\ AtStep("advanced", "llm")
        /\ calls' = Append(calls, Call("llm", user_question, context,
                                       format_history(conversation_history), out))
        /\ UNCHANGED user_question
        /\ IF out.ok
           THEN /\ response' = out.val
                /\ pc' = "record"
                /\ UNCHANGED <<variant, running, now, conversation_history, recorded,
                               context, strategy, qwen_response, gpt_response, printed>>
           ELSE ApologiseAndContinue(out.val)

\* self.add_to_history(user_question, response); print
AdvRecord ==
    /\ AtStep("advanced", "record")
    /\ conversation_history' = Adv_add_to_history(conversation_history, user_question,
                                                  response, Times[now])
    /\ recorded' = recorded \o Adv_history_entries(user_question, response, Times[now])
    /\ printed' = Say("answer", response)
    /\ pc' = "input"
    /\ UNCHANGED <<variant, running, now, user_question, calls, context, strategy,
                   qwen_response, gpt_response, response>>

(************************ assistant.py: main, chain ************************)

\* RunnablePassthrough.assign(context=lambda x: search.run(x["question"]))
BasicSearch ==
    \E out \in SearchOutcomes :
        /\ AtStep("basic", "search")
        /\ calls' = Append(calls, Call("search", user_question, None, None, out))
        /\ UNCHANGED user_question
        /\ IF out.ok
           THEN /\ context' = out.val
                /\ pc' = "llm"
                /\ UNCHANGED <<variant, running, now, conversation_history, recorded,
                               strategy, qwen_response, gpt_response, response, printed>>
           ELSE ApologiseAndContinue(out.val)

\* | prompt | llm | StrOutputParser(); print(response)
BasicLlm ==
    \E out \in GptOutcomes :
        /\ AtStep("basic", "llm")
        /\ calls' = Append(calls, Call("llm", user_question, context, None, out))
        /\ UNCHANGED user_question
        /\ IF out.ok
           THEN /\ printed' = Say("answer", out.val)
                /\ pc' = "input"
                /\ DropLocals
                /\ UNCHANGED <<variant, running, now, conversation_history, recorded>>
           ELSE ApologiseAndContinue(out.val)

(********************** simple_dual_model.py: main *************************)

\* qwen_chain: the search of RunnablePassthrough.assign; its failure is the chain's
SimpleQwenSearch ==
    \E out \in SearchOutcomes :
        /\ AtStep("simple", "search")
        /\ calls' = Append(calls, Call("search", user_question, None, None, out))
        /\ IF out.ok
           THEN context' = out.val /\ pc' = "qwen" /\ UNCHANGED qwen_response
           ELSE /\ qwen_response' = TxtSimpleQwenError \o out.val
                /\ pc' = "search_gpt"
                /\ UNCHANGED context
        /\ UNCHANGED <<strategy, gpt_response, response, printed>>
        /\ Frame

\* qwen_chain: | qwen_prompt | qwen_model | StrOutputParser()
SimpleQwen ==
    \E out \in QwenOutcomes :
        /\ AtStep("simple", "qwen")
        /\ calls' = Append(calls, Call("qwen", user_question, context, None, out))
        /\ qwen_response' = IF out.ok THEN out.val ELSE TxtSimpleQwenError \o out.val
        /\ pc' = "search_gpt"
        /\ UNCHANGED <<context, strategy, gpt_response, response, printed>>
        /\ Frame

\* gpt_chain searches again; on failure both responses are displayed
SimpleGptSearch ==
    \E out \in SearchOutcomes :
        /\ AtStep("simple", "search_gpt")
        /\ calls' = Append(calls, Call("search", user_question, None, None, out))
        /\ IF out.ok
           THEN /\ context' = out.val
                /\ pc' = "gpt"
                /\ UNCHANGED <<qwen_response, gpt_response, response, printed>>
           ELSE /\ printed' = Say("both", qwen_response \o TxtSimpleGptError \o out.val)
                /\ pc' = "input"
                /\ context' = None
                /\ qwen_response' = None
                /\ UNCHANGED <<gpt_response, response>>
        /\ UNCHANGED strategy
        /\ Frame

\* gpt_chain: | gpt_prompt | gpt_model | StrOutputParser(); both responses are displayed
SimpleGpt ==
    \E out \in GptOutcomes :
        /\ AtStep("simple", "gpt")
        /\ calls' = Append(calls, Call("gpt", user_question, context, None, out))
        /\ printed' = Say("both", qwen_response \o
                          (IF out.ok THEN out.val ELSE TxtSimpleGptError \o out.val))
        /\ pc' = "input"
        /\ DropLocals
        /\ Frame

(****************************** specification ******************************)

Next ==
    \/ Tick
    \/ ReadExit
    \/ ReadSave
    \/ ReadClear
    \/ ReadModels
    \/ ReadEmpty
    \/ ReadQuestion
    \/ InputFails
    \/ Interrupt
    \/ DualSearch
    \/ DualCoordinator
    \/ DualQwen
    \/ DualGpt
    \/ DualCombine
    \/ DualRecord
    \/ AdvSearch
    \/ AdvLlm
    \/ AdvRecord
    \/ BasicSearch
    \/ BasicLlm
    \/ SimpleQwenSearch
    \/ SimpleQwen
    \/ SimpleGptSearch
    \/ SimpleGpt

Spec == Init /\ [][Next]_vars

(************ the history operations, called in any order *****************)

\* how many exchanges are added between two clears
MaxHistExchanges == 11

MaxRecordExchanges == 2

\* the lines of Inputs that are questions, as run() passes them on
Questions ==
    {Typed[inp] : inp \in {i \in Inputs : IsQuestion("dual", Typed[i], TypedLower[i])}}

HistAnswers == { Text(<<"G","a">>) }

\* answers around the 300 and 200 character marks
RecordAnswers ==
    { Text(<<"G","a">>), Repeat(Ord["a"], HistoryBudget - 1), Repeat(Ord["b"], HistoryBudget),
      Repeat(Ord["c"], HistoryBudget + 1), Repeat(Ord["d"], FormatBudget + 1) }

\* self.add_to_history(user_question, response), of either class
CallAddToHistory(questions, answers, maxExchanges) ==
    \E q \in questions, a \in answers :
        /\ AtInput
        /\ variant \in HistoryVariants
        /\ Len(recorded) < 2 * maxExchanges
        /\ user_question' = q
        /\ response' = a
        /\ conversation_history' =
               IF variant = "dual"
               THEN add_to_history(conversation_history, q, a, Times[now])
               ELSE Adv_add_to_history(conversation_history, q, a, Times[now])
        /\ recorded' = recorded \o (IF variant = "dual"
                                     THEN history_entries(q, a, Times[now])
                                     ELSE Adv_history_entries(q, a, Times[now]))
        /\ UNCHANGED <<variant, running, pc, now, context, strategy, qwen_response,
                       gpt_response, calls, printed>>

\* self.conversation_history = []
CallClear ==
    /\ AtInput
    /\ variant \in HistoryVariants
    /\ conversation_history' = <<>>
    /\ recorded' = <<>>
    /\ printed' = Say("cleared", None)
    /\ UNCHANGED <<variant, running, pc, now, user_question, context, strategy,
                   qwen_response, gpt_response, response, calls>>

\* self.save_conversation()
CallSave ==
    \E out \in SaveOutcomes :
        /\ AtInput
        /\ variant \in HistoryVariants
        /\ printed' = save_conversation(out)
        /\ UNCHANGED <<variant, running, pc, now, conversation_history, user_question,
                       context, strategy, qwen_response, gpt_response, response, calls,
                       recorded>>

InitHist == Init /\ variant \in HistoryVariants

HistAdd == CallAddToHistory(Questions, HistAnswers, MaxHistExchanges)

NextHist == HistAdd \/ CallClear \/ CallSave

SpecHist == InitHist /\ [][NextHist]_vars

RecordAdd == CallAddToHistory(Questions, RecordAnswers, MaxRecordExchanges)

NextRecord == RecordAdd \/ CallClear

SpecRecord == InitHist /\ [][NextRecord]_vars

\* how many exchanges are added between two clears when each question comes with
\* an answer of its own
MaxPairExchanges == 11

\* the (user_question, response) pairs run() hands to add_to_history: a short
\* answer and one longer than the 200 characters format_history keeps
Exchanges ==
    { [q |-> Text(<<"H","i">>), a |-> Text(<<"G","a">>)],
      [q |-> Text(<<"e","x","i","t"," ","n","o","w">>), a |-> Repeat(Ord["d"], FormatBudget + 1)] }

PairAdd == \E e \in Exchanges : CallAddToHistory({e.q}, {e.a}, MaxPairExchanges)

NextPairs == PairAdd \/ CallClear \/ CallSave

SpecPairs == InitHist /\ [][NextPairs]_vars

(******************************** claims ***********************************)

IsPrefixOf(p, s) == Len(p) <= Len(s) /\ \A i \in 1..Len(p) : p[i] = s[i]

Ops(cs) == [i \in 1..Len(cs) |-> cs[i].op]

LastCall == calls[Len(calls)]

\* the answer part of the newest history entry: the entry without "[HH:MM] "
StoredAnswer ==
    LET e == conversation_history[Len(conversation_history)]
    IN  SubSeq(e, 9, Len(e))

\* C1: after any sequence of add_to_history, clear and save the history holds at
\* most 20 entries, and once more than 10 exchanges were recorded since the last
\* clear it is exactly the entries of the 10 most recent exchanges, in order.
C1_HistoryIsLastTenExchanges ==
    /\ Len(conversation_history) <= 20
    /\ Len(recorded) > 20 =>
          /\ Len(conversation_history) = 20
          /\ \A i \in 1..20 :
                conversation_history[i] = recorded[Len(recorded) - 20 + i]

\* C1: an eleventh exchange was recorded and the oldest one is gone
C1_Witness ==
    /\ Len(recorded) > 20
    /\ conversation_history[1] # recorded[1]
    /\ conversation_history[1] = recorded[Len(recorded) - 19]

\* the character budget the spec gives each variant for a stored answer
SpecBudget == IF variant = "dual" THEN 300 ELSE 200

\* C9 as stated: the stored answer is the answer cut to the variant's budget, and it
\* ends with the ellipsis marker exactly when it was cut.
C9_MarkerIffTruncated ==
    conversation_history # <<>> =>
        StoredAnswer = (IF Len(response) <= SpecBudget
                        THEN response
                        ELSE Prefix(response, SpecBudget) \o Text(<<".", ".", ".">>))

\* C9 as amended: the dual-model variant stores the first 300 characters of the
\* answer followed by "..." in every case, cut or not; the advanced variant stores
\* the answer whole and adds no marker.
C9_DualAlwaysMarksAdvancedStoresWhole ==
    conversation_history # <<>> =>
        LET kept == IF Len(response) < 300 THEN Len(response) ELSE 300
        IN  IF variant = "dual"
            THEN /\ Len(StoredAnswer) = kept + 3
                 /\ \A i \in 1..kept : StoredAnswer[i] = response[i]
                 /\ \A i \in (kept + 1)..(kept + 3) : StoredAnswer[i] = Ord["."]
            ELSE StoredAnswer = response

\* C9: the dual-model variant has recorded an answer longer than 300 characters
C9_Witness ==
    /\ variant = "dual"
    /\ conversation_history # <<>>
    /\ Len(response) > 300
    /\ Len(StoredAnswer) = 303

\* C2: determine_model_strategy always returns one of the four labels: the trimmed,
\* uppercased coordinator output when that is a label, GPT when it is no label and
\* when the invocation fails; it never raises, so processing goes on to a model.
C2_StrategyIsLabelOrGptFallback ==
    (variant = "dual" /\ calls # <<>> /\ LastCall.op = "coordinator") =>
        LET out == LastCall.outcome
            normalized == upper(strip(out.val))
        IN  /\ strategy \in Labels
            /\ (out.ok /\ normalized \in Labels) => strategy = normalized
            /\ ~(out.ok /\ normalized \in Labels) => strategy = LabelGpt
            /\ out = Returned(Text(<<" ","q","w","e","n">>)) => strategy = Text(<<"Q","W","E","N">>)
            /\ out = Returned(Text(<<"B","o","t","h">>)) => strategy = Text(<<"B","O","T","H">>)
            /\ out = Returned(<<8195, 98, 111, 116, 104, 160>>)
                  => strategy = Text(<<"B","O","T","H">>)
            /\ out = Returned(Text(<<"q","w","e","n","_","t","h","e","n","_","g","p","t"," ">>))
                  => strategy = Text(<<"Q","W","E","N","_","T","H","E","N","_","G","P","T">>)
            /\ out = Returned(Text(<<"M","A","Y","B","E">>)) => strategy = Text(<<"G","P","T">>)
            /\ out = Returned(Text(<<"Q","W","E","N"," ","G","P","T">>)) => strategy = Text(<<"G","P","T">>)
            /\ ~out.ok => strategy = Text(<<"G","P","T">>)
            /\ running /\ pc \in {"qwen", "gpt"}
            /\ printed.kind = "strategy"

\* C2: the coordinator answered " qwen" and the strategy is QWEN
C2_Witness ==
    /\ variant = "dual"
    /\ calls # <<>>
    /\ LastCall.op = "coordinator"
    /\ LastCall.outcome = Returned(Text(<<" ","q","w","e","n">>))
    /\ strategy = LabelQwen

InfoLabels == {TxtInfoQwen, TxtInfoGpt, TxtInfoBoth, TxtInfoSequential}

\* C3: in the dual-model variant, whatever fails among the search, the coordinator,
\* Qwen, GPT and the combiner, processing a question never ends in the loop's error
\* handler; a failed model call leaves its diagnostic string as that model's
\* response for the steps that follow; the returned text is a model-info label, a
\* blank line and the response, and the loop records the question and that text.
C3_DualAlwaysAnswersAndRecords ==
    (variant = "dual" /\ calls # <<>>) =>
        /\ printed.kind # "apology"
        /\ running
        /\ pc \in {"coordinator", "qwen", "gpt", "combiner", "record", "input"}
        /\ (LastCall.op = "qwen" /\ ~LastCall.outcome.ok) =>
              (IF strategy = LabelQwen THEN response ELSE qwen_response)
                  = TxtQwenModelError \o LastCall.outcome.val
        /\ (LastCall.op = "gpt" /\ ~LastCall.outcome.ok) =>
              (IF strategy = LabelBoth THEN gpt_response ELSE response)
                  = TxtGptModelError \o LastCall.outcome.val
        /\ \A i \in 1..Len(calls) :
              (calls[i].op = "gpt" /\ strategy = LabelQwenThenGpt) =>
                  IsPrefixOf(TxtPreviousAnalysis \o qwen_response, calls[i].context)
        /\ pc = "input" =>
              /\ printed.kind = "answer"
              /\ \E info \in InfoLabels : printed.text = info \o Text(<<"\n", "\n">>) \o response
              /\ Len(conversation_history) >= 2
              /\ \E t \in 1..Len(Times) :
                    /\ conversation_history[Len(conversation_history) - 1]
                          = Text(<<"[">>) \o Times[t] \o Text(<<"]", " ">>) \o user_question
                    /\ conversation_history[Len(conversation_history)]
                          = Text(<<"[">>) \o Times[t] \o Text(<<"]", " ">>)
                               \o Prefix(printed.text, 300) \o Text(<<".", ".", ".">>)

\* C3: every call of a question failed and the question was answered and recorded
C3_Witness ==
    /\ variant = "dual"
    /\ pc = "input"
    /\ Len(calls) = 3
    /\ \A i \in 1..Len(calls) : ~calls[i].outcome.ok
    /\ printed.kind = "answer"
    /\ conversation_history # <<>>

\* the calls process_question makes under a strategy, in order
DualExpectedOps(strat) ==
    CASE strat = LabelQwen -> <<"search", "coordinator", "qwen">>
      [] strat = LabelGpt -> <<"search", "coordinator", "gpt">>
      [] strat = LabelBoth -> <<"search", "coordinator", "qwen", "gpt", "combiner">>
      [] strat = LabelQwenThenGpt -> <<"search", "coordinator", "qwen", "gpt">>
      [] OTHER -> <<"search">>

C4_CallsInOrder ==
    (variant = "dual" /\ calls # <<>>) =>
        LET expected == DualExpectedOps(strategy)
        IN  /\ IsPrefixOf(Ops(calls), expected)
            /\ pc \in {"record", "input"} => Ops(calls) = expected
            /\ pc \notin {"record", "input"} =>
                  /\ Len(calls) < Len(expected) => expected[Len(calls) + 1] = pc
                  /\ Len(calls) = Len(expected) => pc = "coordinator"
            /\ \A i \in 1..Len(calls) :
                  /\ calls[i].question = user_question
                  /\ (strategy = LabelBoth /\ calls[i].op \in {"qwen", "gpt", "combiner"})
                        => calls[i].context = context
                  /\ calls[i].op \in {"coordinator", "qwen"} => calls[i].context = context

C4_RecordedOnlyAfterLastStep ==
    (variant = "dual" /\ conversation_history' # conversation_history
       /\ conversation_history' # <<>>) =>
        /\ pc = "record"
        /\ Ops(calls) = DualExpectedOps(strategy)
        /\ calls' = calls
        /\ Len(conversation_history') = Len(conversation_history) + 2

\* C4: for every question of the dual-model variant the calls happen in this order,
\* each at most once: search, coordinator, then by strategy Qwen alone, GPT alone,
\* Qwen then GPT then the combiner (both models given the original context), or
\* Qwen then GPT without the combiner; the history gets the result only after the
\* last of them.
C4_StepsInOrderThenRecorded ==
    [] C4_CallsInOrder /\ [][C4_RecordedOnlyAfterLastStep]_vars

\* C4: a question answered under BOTH: five calls, then recorded
C4_Witness ==
    /\ variant = "dual"
    /\ pc = "input"
    /\ strategy = LabelBoth
    /\ Ops(calls) = <<"search", "coordinator", "qwen", "gpt", "combiner">>
    /\ printed.kind = "answer"
    /\ conversation_history # <<>>

\* C5: under QWEN_THEN_GPT the GPT call receives the context "Previous analysis: " +
\* Qwen's response + "\n\nOriginal context: " + the search context, also when Qwen's
\* response is the diagnostic of a failed call or the search context is the
\* "Search unavailable" text; the question it receives is the user's, unchanged.
C5_RefinedContextVerbatim ==
    (variant = "dual" /\ strategy = LabelQwenThenGpt) =>
        \A i \in 1..Len(calls) :
            calls[i].op = "gpt" =>
                /\ calls[i].context =
                      Text(<<"P","r","e","v","i","o","u","s"," ","a","n","a","l","y","s","i","s",
                        ":"," ">>) \o qwen_response
                      \o Text(<<"\n","\n","O","r","i","g","i","n","a","l"," ","c","o","n","t","e",
                           "x","t",":"," ">>) \o context
                /\ calls[i].question = user_question
                /\ calls[i].question = calls[1].question
                /\ user_question \in Questions
                /\ qwen_response = (IF calls[3].outcome.ok THEN calls[3].outcome.val
                                    ELSE TxtQwenModelError \o calls[3].outcome.val)
                /\ context = (IF calls[1].outcome.ok THEN calls[1].outcome.val
                              ELSE TxtSearchUnavailable \o calls[1].outcome.val
                                   \o TxtModelKnowledgeOnly)

\* C5: GPT was called under QWEN_THEN_GPT after the search and Qwen both failed
C5_Witness ==
    /\ variant = "dual"
    /\ strategy = LabelQwenThenGpt
    /\ Len(calls) = 4
    /\ calls[4].op = "gpt"
    /\ ~calls[1].outcome.ok
    /\ ~calls[3].outcome.ok

\* C6: when the combiner invocation fails, combine_responses returns
\* "**Combined Response:**\n\n**Qwen3-VL:** " + qwen_response + "\n\n**GPT-OSS:** " +
\* gpt_response: Qwen's section first, nothing of the question, context or cause.
C6_CombinerFallbackVerbatim ==
    (variant = "dual" /\ calls # <<>> /\ LastCall.op = "combiner"
       /\ ~LastCall.outcome.ok) =>
        response =
            Text(<<"*","*","C","o","m","b","i","n","e","d"," ","R","e","s","p","o","n","s","e",
              ":","*","*","\n","\n","*","*","Q","w","e","n","3","-","V","L",":","*","*"," ">>)
            \o qwen_response
            \o Text(<<"\n","\n","*","*","G","P","T","-","O","S","S",":","*","*"," ">>)
            \o gpt_response

\* C6: the combiner failed after Qwen and GPT gave different responses
C6_Witness ==
    /\ variant = "dual"
    /\ calls # <<>>
    /\ LastCall.op = "combiner"
    /\ ~LastCall.outcome.ok
    /\ pc = "record"
    /\ qwen_response # gpt_response
    /\ calls[3].outcome.ok
    /\ calls[4].outcome.ok

IsSuffixOf(p, s) ==
    Len(p) <= Len(s) /\ \A i \in 1..Len(p) : p[i] = s[Len(s) - Len(p) + i]

\* the context a failed search leaves in the variants that handle the failure
SearchFallback(cause) ==
    Text(<<"S","e","a","r","c","h"," ","u","n","a","v","a","i","l","a","b","l","e",":"," ">>)
    \o cause
    \o (IF variant = "dual"
        THEN Text(<<"."," ","U","s","i","n","g"," ","m","o","d","e","l"," ","k","n","o","w",
               "l","e","d","g","e"," ","o","n","l","y",".">>)
        ELSE Text(<<"."," ","U","s","i","n","g"," ","g","e","n","e","r","a","l"," ","k","n",
               "o","w","l","e","d","g","e"," ","o","n","l","y",".">>))

SearchFailed == calls # <<>> /\ calls[1].op = "search" /\ ~calls[1].outcome.ok

\* simple_dual_model.py: what the Qwen chain left as qwen_response, read back from
\* the calls made for the question
SimpleQwenShown ==
    IF ~calls[1].outcome.ok
    THEN Text(<<"Q","w","e","n","3","-","V","L"," ","E","r","r","o","r",":"," ">>)
         \o calls[1].outcome.val
    ELSE IF calls[2].outcome.ok
    THEN calls[2].outcome.val
    ELSE Text(<<"Q","w","e","n","3","-","V","L"," ","E","r","r","o","r",":"," ">>)
         \o calls[2].outcome.val

\* simple_dual_model.py: the search of the GPT chain is the search call that is
\* not the first call of the question
SimpleGptSearchFailedAt(i) ==
    /\ variant = "simple"
    /\ i \in 2..Len(calls)
    /\ calls[i].op = "search"
    /\ ~calls[i].outcome.ok

\* C7 as stated: in every variant a failed search yields a "Search unavailable:
\* <cause>." context instead of raising, and the model is still invoked with it.
C7_SearchFailureRecoveredInEveryVariant ==
    SearchFailed =>
        LET text == Text(<<"S","e","a","r","c","h"," ","u","n","a","v","a","i","l","a","b","l",
                      "e",":"," ">>) \o calls[1].outcome.val \o Text(<<".">>)
        IN  /\ printed.kind # "apology"
            /\ Len(calls) = 1 =>
                  /\ pc \in {"coordinator", "llm", "qwen"}
                  /\ IsPrefixOf(text, context)
            /\ Len(calls) >= 2 =>
                  /\ calls[2].op \in {"coordinator", "llm", "qwen"}
                  /\ IsPrefixOf(text, calls[2].context)

\* C7 as amended: the dual-model and the advanced variant recover a failed search
\* locally: the context is "Search unavailable: <cause>. Using model knowledge only."
\* (dual) or "... Using general knowledge only." (advanced) and the model is invoked
\* with it. In assistant.py the failure leaves the chain and ends in the loop's error
\* handler, with no model call; in simple_dual_model.py it becomes the chain's
\* "... Error: <cause>" response, with no call of that chain's model.
C7_SearchFailureRecoveredWhereHandled ==
    SearchFailed =>
        LET cause == calls[1].outcome.val
        IN  /\ variant \in {"dual", "advanced"} =>
                  /\ running
                  /\ Len(calls) = 1 =>
                        /\ pc = (IF variant = "dual" THEN "coordinator" ELSE "llm")
                        /\ context = SearchFallback(cause)
                        /\ printed.kind # "apology"
                  /\ Len(calls) >= 2 =>
                        /\ calls[2].op = (IF variant = "dual" THEN "coordinator" ELSE "llm")
                        /\ calls[2].context = SearchFallback(cause)
                  /\ \A i \in 3..Len(calls) :
                        IF calls[i].op = "gpt" /\ strategy = LabelQwenThenGpt
                        THEN IsSuffixOf(SearchFallback(cause), calls[i].context)
                        ELSE calls[i].context = SearchFallback(cause)
                  /\ (variant = "dual" /\ pc \in {"record", "input"}) =>
                        \E i \in 3..Len(calls) : calls[i].op \in {"qwen", "gpt"}
            /\ variant = "basic" =>
                  /\ Len(calls) = 1
                  /\ running /\ pc = "input"
                  /\ printed = Say("apology", cause)
            /\ variant = "simple" =>
                  /\ \A i \in 1..Len(calls) : calls[i].op # "qwen"
                  /\ running
                  /\ printed.kind # "apology"
                  /\ Len(calls) = 1 =>
                        /\ pc = "search_gpt"
                        /\ qwen_response
                              = Text(<<"Q","w","e","n","3","-","V","L"," ","E","r","r","o",
                                       "r",":"," ">>) \o cause
                  /\ Len(calls) >= 2 => calls[2].op = "search"

\* C7 as amended, the GPT chain of simple_dual_model.py: when its search fails, the
\* GPT model is not invoked for the question, the loop goes on without an apology
\* and what is displayed is the Qwen chain's response followed by
\* "GPT-OSS Error: <cause>", whether or not the Qwen chain's own search failed.
C7_SimpleGptSearchFailureBecomesErrorText ==
    \A i \in 1..Len(calls) :
        SimpleGptSearchFailedAt(i) =>
            /\ i = Len(calls)
            /\ i = (IF calls[1].outcome.ok THEN 3 ELSE 2)
            /\ \A j \in 1..Len(calls) : calls[j].op # "gpt"
            /\ running
            /\ pc = "input"
            /\ printed.kind = "both"
            /\ printed.text
                  = SimpleQwenShown
                    \o Text(<<"G","P","T","-","O","S","S"," ","E","r","r","o","r",":"," ">>)
                    \o calls[i].outcome.val

\* C7 as amended, in full: the recovery of the dual-model and advanced variants, the
\* apology of assistant.py, and both chains of simple_dual_model.py
C7_SearchFailureHandledPerVariant ==
    /\ C7_SearchFailureRecoveredWhereHandled
    /\ C7_SimpleGptSearchFailureBecomesErrorText

\* C7: the dual-model variant answered a question whose search had failed
C7_Witness ==
    /\ variant = "dual"
    /\ SearchFailed
    /\ pc = "input"
    /\ printed.kind = "answer"
    /\ calls[Len(calls)].context = SearchFallback(calls[1].outcome.val)

\* a step in which a call of an external service failed
CallFailed ==
    /\ Len(calls') = Len(calls) + 1
    /\ ~calls'[Len(calls')].outcome.ok

C8_LoopEndsOnlyOnExitOrInterrupt ==
    /\ (running /\ ~running') =>
          \/ printed'.kind = "interrupted"
          \/ /\ printed'.kind = "goodbye"
             /\ pc = "input"
             /\ lower(user_question') \in
                   { Text(<<"e","x","i","t">>), Text(<<"q","u","i","t">>), Text(<<"b","y","e">>),
                     Text(<<"g","o","o","d","b","y","e">>) }
    /\ CallFailed => running'
    /\ (CallFailed /\ (variant = "basic" \/ (variant = "advanced" /\ pc = "llm"))) =>
          printed' = Say("apology", calls'[Len(calls')].outcome.val)
    /\ printed'.kind = "apology" => (running' /\ pc' = "input")

\* C8: the loop ends only on an exit command (exit, quit, bye, goodbye, in any case)
\* or an interrupt; a failure raised while reading or handling a line is caught at
\* the loop boundary, an apology is printed and the loop reads the next line.
C8_FailuresDoNotEndTheLoop ==
    [][C8_LoopEndsOnlyOnExitOrInterrupt]_vars
    /\ [](printed.kind = "apology" => (running /\ pc = "input"))

\* C8: the model call of the advanced variant failed; the loop waits for a line
C8_Witness ==
    /\ variant = "advanced"
    /\ calls # <<>>
    /\ ~LastCall.outcome.ok
    /\ LastCall.op = "llm"
    /\ printed.kind = "apology"
    /\ running
    /\ pc = "input"

\* the step of the clear command
ClearStep ==
    /\ pc = "input"
    /\ lower(user_question') \in ClearCommands
    /\ printed'.kind = "cleared"
    /\ conversation_history' = <<>>

\* the step that records an answered question
RecordStep ==
    /\ pc = "record"
    /\ pc' = "input"
    /\ printed'.kind = "answer"
    /\ IsQuestion(variant, user_question, lower(user_question))
    /\ Len(conversation_history') = Len(conversation_history) + 2

\* the step that handles the line "save": the line was read at this step, which
\* neither failed in input() nor was interrupted there
SaveStep ==
    /\ variant \in HistoryVariants
    /\ pc = "input"
    /\ lower(user_question') = CmdSave
    /\ ~(printed'.kind = "apology" /\ printed'.text \in InputFailures)
    /\ printed'.kind # "interrupted"

SaveNeverRaises ==
    SaveStep =>
        /\ printed'.kind \in {"saved", "save_failed"}
        /\ running'
        /\ pc' = "input"
        /\ UNCHANGED conversation_history

\* C10 as stated: only recording an answered question and clear change the history;
\* empty input, save, models and a question whose processing raises leave it
\* unchanged, and a failed save raises nothing to the loop.
C10_OnlyRecordAndClearChangeHistory ==
    [][ /\ conversation_history' # conversation_history => (ClearStep \/ RecordStep)
        /\ (user_question' = <<>> \/ lower(user_question') \in {CmdSave, CmdModels})
              => UNCHANGED conversation_history
        /\ printed'.kind = "apology" => UNCHANGED conversation_history
        /\ SaveNeverRaises ]_vars

\* C10 as amended: as stated, with models leaving the history unchanged in the
\* dual-model variant only; in the advanced variant "models" is no command: it is
\* processed as a question and recorded once answered.
C10_OnlyRecordAndClearChangeHistoryModelsInDual ==
    [][ /\ conversation_history' # conversation_history => (ClearStep \/ RecordStep)
        /\ (\/ user_question' = <<>>
            \/ lower(user_question') = CmdSave
            \/ (variant = "dual" /\ lower(user_question') = CmdModels))
              => UNCHANGED conversation_history
        /\ printed'.kind = "apology" => UNCHANGED conversation_history
        /\ SaveNeverRaises ]_vars

\* C10: a save failed while the history held an exchange; the loop goes on
C10_Witness ==
    /\ variant = "advanced"
    /\ printed.kind = "save_failed"
    /\ conversation_history # <<>>
    /\ running
    /\ pc = "input"

\* C11: after any sequence of questions, clear and save commands, format_history
\* returns "No previous conversation." exactly when conversation_history is empty.
C11_NoPreviousIffEmpty ==
    variant = "advanced" =>
        ((format_history(conversation_history)
              = Text(<<"N","o"," ","p","r","e","v","i","o","u","s"," ",
                  "c","o","n","v","e","r","s","a","t","i","o","n",".">>))
         <=> Len(conversation_history) = 0)

\* C11: the advanced variant has recorded an exchange, its history was saved, and
\* format_history renders it
C11_Witness ==
    /\ variant = "advanced"
    /\ Len(conversation_history) >= 2
    /\ printed.kind = "saved"
    /\ IsPrefixOf(Text(<<"Q", ":", " ", "[">>), format_history(conversation_history))

\* the exchanges the history holds, oldest first, read back from the entries
\* recorded since the last clear
StoredExchanges ==
    LET n == Len(recorded) \div 2
        m == Len(conversation_history) \div 2
    IN  [k \in 1..m |-> [q |-> recorded[2 * (n - m + k) - 1],
                         a |-> recorded[2 * (n - m + k)]]]

\* the blocks the claim expects of format_history: one per exchange of the last
\* min(3, stored exchanges), oldest first
ExpectedBlocks ==
    LET m == Len(StoredExchanges)
        shown == IF m < 3 THEN m ELSE 3
    IN  [k \in 1..shown |->
            Text(<<"Q", ":", " ">>) \o StoredExchanges[m - shown + k].q
            \o Text(<<"\n", "A", ":", " ">>)
            \o Prefix(StoredExchanges[m - shown + k].a, 200) \o Text(<<".", ".", ".">>)]

\* C12: conversation_history has even length, with a question at each even index
\* (counted from 0) and right after it the answer recorded by the same
\* add_to_history call, also after eviction at the 20-entry cap; hence
\* format_history renders min(3, stored exchanges) blocks, each pairing a question
\* with its own answer, the most recent exchanges in recording order.
C12_PairsStayAligned ==
    /\ Len(conversation_history) % 2 = 0
    /\ Len(recorded) % 2 = 0
    /\ \A k \in 1..(Len(conversation_history) \div 2) :
          /\ conversation_history[2 * k - 1] = StoredExchanges[k].q
          /\ conversation_history[2 * k] = StoredExchanges[k].a
          /\ \E e \in Exchanges, t \in 1..Len(Times) :
                /\ conversation_history[2 * k - 1]
                       = Text(<<"[">>) \o Times[t] \o Text(<<"]", " ">>) \o e.q
                /\ conversation_history[2 * k]
                       = Text(<<"[">>) \o Times[t] \o Text(<<"]", " ">>)
                         \o (IF variant = "dual"
                             THEN Prefix(e.a, 300) \o Text(<<".", ".", ".">>)
                             ELSE e.a)
    /\ (variant = "advanced" /\ Len(conversation_history) > 0) =>
          /\ Len(format_blocks(Suffix(conversation_history, 6))) = Len(ExpectedBlocks)
          /\ format_history(conversation_history) = JoinBlank(ExpectedBlocks)

\* C12: the advanced variant recorded an eleventh exchange, the oldest one was
\* evicted, and the three exchanges format_history renders are not all the same
C12_Witness ==
    /\ variant = "advanced"
    /\ Len(recorded) > 20
    /\ Len(conversation_history) = 20
    /\ conversation_history[1] # recorded[1]
    /\ conversation_history[17] # conversation_history[19]
    /\ Len(format_blocks(Suffix(conversation_history, 6))) = 3

====
